---------------------------- MODULE Spec2Model ----------------------------
(***************************************************************************)
(* Model of src/pkcs11/mechanism.c (OpenSC): the per-token mechanism       *)
(* registry and the per-session operation dispatcher.                      *)
(*                                                                         *)
(* Return codes are modelled by their CKR_ names, capability flags by     *)
(* sets of CKF_ names (a bit mask is the set of its bits), pointers by the *)
(* object they point to or by a null marker.                               *)
(***************************************************************************)
EXTENDS Integers, Sequences, FiniteSets, TLC

VARIABLES
    mechanisms,   \* p11card->mechanisms[0 .. nmechanisms-1]
    storage,      \* the allocation p11card->mechanisms points to: "null", "valid", "freed"
    registered,   \* history: the <<id, key type>> pairs of the register calls that returned CKR_OK
    regcall,      \* history: the path the last register call took and what it returned
    query,        \* history: the last find, list or sign-and-hash call on the registry
    ops,          \* session->operation[]: the handle installed for each family, or NoOp
    call          \* history: the last dispatcher call, what it was given and what it did

vars == <<mechanisms, storage, registered, regcall, query, ops, call>>
regvars == <<mechanisms, storage, registered, regcall, query>>

(***************************************************************************)
(* Program constants                                                       *)
(***************************************************************************)
MAX_KEY_TYPES == 2
CKK_RSA == 0
CKK_EC == 3
CKK_GOSTR3410 == 48
CKK_EC_EDWARDS == 64
CKK_EC_MONTGOMERY == 65

\* A key type is a CK_KEY_TYPE (unsigned long); a descriptor stores it as an
\* int.  The model keeps the int IntBits wide: CKK_VENDOR_DEFINED is the key
\* type whose only set bit is the int's sign bit (0x80000000 for 32 bits).
IntBits == 8
CKK_VENDOR_DEFINED == 2 ^ (IntBits - 1)

\* (int)key_type: the low IntBits bits, read as a two's complement number.
KeyTypeAsInt(key_type) ==
    LET w == key_type % (2 ^ IntBits)
    IN  IF w >= 2 ^ (IntBits - 1) THEN w - 2 ^ IntBits ELSE w

(***************************************************************************)
(* The register calls the token initialisation may make: mechanism 1 with  *)
(* either flag set and any of four key types (more than a descriptor has   *)
(* slots), mechanism 2 with one flag set and one key type.  The key        *)
(* size range (in units of 1024 bits) comes with the key type.             *)
(***************************************************************************)
KeyTypes == {CKK_RSA, CKK_EC, CKK_GOSTR3410, CKK_VENDOR_DEFINED}

RegFlagSets == { {"CKF_SIGN"}, {"CKF_SIGN", "CKF_DECRYPT"} }

KeySizeRange(kt) ==
    IF kt = CKK_RSA THEN [lo |-> 2, hi |-> 4]
    ELSE IF kt = CKK_EC THEN [lo |-> 1, hi |-> 3]
    ELSE [lo |-> 1, hi |-> 1]

MechIds == {1, 2}

RegRequests ==
    { [mech |-> 1, flags |-> f, kt |-> k] : f \in RegFlagSets, k \in KeyTypes }
    \cup { [mech |-> 2, flags |-> {"CKF_SIGN"}, kt |-> CKK_RSA] }

NoMech == [mech |-> 0]

\* A null mech_data pointer; otherwise mech_data is a hash_signature_info.
NoInfo == [mech |-> 0, hash_mech |-> 0, sign_mech |-> 0, hash_type |-> 0]

(***************************************************************************)
(* Pure functions of the registry                                          *)
(***************************************************************************)
Min(S) == CHOOSE x \in S : \A y \in S : x <= y

\* A variant that differs from the code: the new key size range replaces the
\* stored one.
replace_mech_info(mech_info, new_mech_info) ==
    [new_mech_info EXCEPT !.flags = mech_info.flags \cup new_mech_info.flags]

\* _update_mech_info: widen the key size range, unite the flags.
update_mech_info(mech_info, new_mech_info) ==
    [ ulMinKeySize |-> IF new_mech_info.ulMinKeySize < mech_info.ulMinKeySize
                       THEN new_mech_info.ulMinKeySize ELSE mech_info.ulMinKeySize,
      ulMaxKeySize |-> IF new_mech_info.ulMaxKeySize > mech_info.ulMaxKeySize
                       THEN new_mech_info.ulMaxKeySize ELSE mech_info.ulMaxKeySize,
      flags        |-> mech_info.flags \cup new_mech_info.flags ]

\* The hooks sc_pkcs11_new_fw_mechanism sets for a flag set.
FwHooks(flags) ==
    {"release"}
    \cup (IF "CKF_SIGN" \in flags
          THEN {"sign_init", "sign_update", "sign_final", "sign_size",
                "verif_init", "verif_update", "verif_final"} ELSE {})
    \cup (IF "CKF_WRAP" \in flags THEN {"wrap"} ELSE {})
    \cup (IF "CKF_UNWRAP" \in flags THEN {"unwrap"} ELSE {})
    \cup (IF "CKF_DERIVE" \in flags THEN {"derive"} ELSE {})
    \cup (IF "CKF_DECRYPT" \in flags
          THEN {"decrypt_init", "decrypt", "decrypt_update", "decrypt_final"} ELSE {})
    \cup (IF "CKF_ENCRYPT" \in flags
          THEN {"encrypt_init", "encrypt", "encrypt_update", "encrypt_final"} ELSE {})

\* sc_pkcs11_new_fw_mechanism: calloc'ed descriptor, key_types = kt, -1, 0, ...
sc_pkcs11_new_fw_mechanism(mech, pInfo, key_type, priv_data, copy_priv_data) ==
    [ mech           |-> mech,
      mech_info      |-> pInfo,
      key_types      |-> [i \in 1 .. MAX_KEY_TYPES |->
                             IF i = 1 THEN KeyTypeAsInt(key_type)
                             ELSE IF i = 2 THEN -1 ELSE 0],
      mech_data      |-> priv_data,
      copy_mech_data |-> copy_priv_data,
      hooks          |-> FwHooks(pInfo.flags) ]

\* sc_pkcs11_find_mechanism: index of the first descriptor with this id whose
\* flags include `flags`; 0 when there is none.
RECURSIVE FindFrom(_, _, _, _)
FindFrom(mechs, mech, flags, n) ==
    IF n > Len(mechs) THEN 0
    ELSE IF mechs[n].mech = mech /\ (mechs[n].mech_info.flags \cap flags) = flags THEN n
    ELSE FindFrom(mechs, mech, flags, n + 1)

\* A variant that differs from the code: the lookup ignores the flags.
find_by_id(mechs, mech, flags) == FindFrom(mechs, mech, {}, 1)

FindIndex(mechs, mech, flags) == FindFrom(mechs, mech, flags, 1)

sc_pkcs11_find_mechanism(mechs, mech, flags) ==
    LET n == FindIndex(mechs, mech, flags)
    IN  IF n = 0 THEN NoMech ELSE mechs[n]

\* _validate_key_type: scan the slots up to the first negative one.
validate_key_type(mt, key_type) ==
    LET stop == { i \in 1 .. MAX_KEY_TYPES : mt.key_types[i] < 0 }
        last == IF stop = {} THEN MAX_KEY_TYPES ELSE Min(stop) - 1
    IN  IF \E i \in 1 .. last : mt.key_types[i] = key_type
        THEN "CKR_OK" ELSE "CKR_KEY_TYPE_INCONSISTENT"

\* The merge loop of sc_pkcs11_register_mechanism on a descriptor that was found:
\* the first slot that holds the key type or is free decides.
MergeSlot(existing_mt, mt) ==
    LET hit == { i \in 1 .. MAX_KEY_TYPES :
                    \/ existing_mt.key_types[i] = mt.key_types[1]
                    \/ existing_mt.key_types[i] < 0 }
    IN  IF hit = {} THEN 0 ELSE Min(hit)

MergeInto(existing_mt, mt) ==
    LET i == MergeSlot(existing_mt, mt)
        merged == [existing_mt EXCEPT
                      !.mech_info = update_mech_info(existing_mt.mech_info, mt.mech_info)]
    IN  IF i = 0 THEN existing_mt
        ELSE IF existing_mt.key_types[i] = mt.key_types[1] THEN merged
        ELSE [merged EXCEPT !.key_types =
                 [j \in 1 .. MAX_KEY_TYPES |->
                     IF j = i THEN mt.key_types[1]
                     ELSE IF j = i + 1 THEN -1
                     ELSE existing_mt.key_types[j]]]

\* sc_pkcs11_register_mechanism when realloc and the clone succeed: merge into the
\* descriptor found under the new descriptor's own flags, or append a copy.
RegisterOk(mechs, mt) ==
    LET n == FindIndex(mechs, mt.mech, mt.mech_info.flags)
    IN  IF n # 0 THEN [mechs EXCEPT ![n] = MergeInto(mechs[n], mt)]
        ELSE Append(mechs, mt)


(***************************************************************************)
(* The session: bounds, values and the token's mechanisms                  *)
(***************************************************************************)
MaxFed == 2       \* bytes fed to one operation by its update calls
MaxSized == 2     \* final calls of one operation that left its handle installed
MaxDerived == 1   \* bytes of a derived key value
MaxActive == 1    \* families with a handle installed at the same time
ParamCap == 1     \* stands for sizeof(operation->mechanism_params)

CKK_AES == 31

OK == "CKR_OK"
BTS == "CKR_BUFFER_TOO_SMALL"
ERR == "CKR_DEVICE_ERROR"          \* any error of a key or digest primitive
NOT_INIT == "CKR_OPERATION_NOT_INITIALIZED"
CRASH == "SIGSEGV"                 \* the call did not return

Families == {"DIGEST", "SIGN", "VERIFY", "ENCRYPT", "DECRYPT", "WRAP", "UNWRAP", "DERIVE"}

\* Mechanism ids the token initialisation registers.
CKM == [sha |-> 3, rsa |-> 4, sha_rsa |-> 5, aes |-> 6, none |-> 7,
        wrap |-> 8, unwrap |-> 9, wrap_unwrap |-> 10, derive |-> 11,
        rsa_single |-> 12, aes_single |-> 13]
SessMechIds == {CKM.sha, CKM.rsa, CKM.sha_rsa, CKM.aes, CKM.none,
                CKM.rsa_single, CKM.aes_single}
SessKeyTypes == {CKK_RSA, CKK_AES}
Bytes == {1, 2}
Chunks == {<< >>} \cup { <<b>> : b \in Bytes }
ParamLens == 0 .. ParamCap + 1     \* 0: pParameter is NULL

\* A digest descriptor as the digest provider registers it: digest hooks only,
\* no key type.
DigestMechanism(mech) ==
    [ mech           |-> mech,
      mech_info      |-> [ulMinKeySize |-> 0, ulMaxKeySize |-> 0, flags |-> {"CKF_DIGEST"}],
      key_types      |-> [i \in 1 .. MAX_KEY_TYPES |-> -1],
      mech_data      |-> NoInfo,
      copy_mech_data |-> FALSE,
      hooks          |-> {"md_init", "md_update", "md_final", "release"} ]

\* sc_pkcs11_register_sign_and_hash_mechanism: the descriptor it builds from the
\* raw signer sign_type and registers; the registry is left alone when the hash
\* mechanism is not registered.
\* (A variant that differs from the code: the raw signer's flags are taken
\* over as they are.)
sign_and_hash_all_flags(mechs, mech, hash_mech, sign_type) ==
    sc_pkcs11_new_fw_mechanism(mech,
        sign_type.mech_info,
        sign_type.key_types[1],
        [mech |-> mech, hash_mech |-> hash_mech, sign_mech |-> sign_type.mech,
         hash_type |-> FindIndex(mechs, hash_mech, {"CKF_DIGEST"})],
        TRUE)

SignAndHashMechanism(mechs, mech, hash_mech, sign_type) ==
    sc_pkcs11_new_fw_mechanism(mech,
        [sign_type.mech_info EXCEPT
            !.flags = @ \cap {"CKF_SIGN", "CKF_SIGN_RECOVER", "CKF_VERIFY", "CKF_VERIFY_RECOVER"}],
        sign_type.key_types[1],
        [mech |-> mech, hash_mech |-> hash_mech, sign_mech |-> sign_type.mech,
         hash_type |-> FindIndex(mechs, hash_mech, {"CKF_DIGEST"})],
        TRUE)

sc_pkcs11_register_sign_and_hash_mechanism(mechs, mech, hash_mech, sign_type) ==
    IF FindIndex(mechs, hash_mech, {"CKF_DIGEST"}) = 0 THEN mechs
    ELSE RegisterOk(mechs, SignAndHashMechanism(mechs, mech, hash_mech, sign_type))

\* The registry after token initialisation: a digest, a raw RSA signer, the
\* hash-then-sign mechanism derived from it, and a cipher.
RawSigner ==
    sc_pkcs11_new_fw_mechanism(CKM.rsa,
        [ulMinKeySize |-> 2, ulMaxKeySize |-> 4, flags |-> {"CKF_SIGN", "CKF_VERIFY"}],
        CKK_RSA, NoInfo, FALSE)

Cipher ==
    sc_pkcs11_new_fw_mechanism(CKM.aes,
        [ulMinKeySize |-> 1, ulMaxKeySize |-> 2, flags |-> {"CKF_ENCRYPT", "CKF_DECRYPT"}],
        CKK_AES, NoInfo, FALSE)

\* Key transport and key agreement mechanisms: one that only wraps, one that
\* only unwraps, one that does both, and a derivation.
KeyTransport(mech, flags) ==
    sc_pkcs11_new_fw_mechanism(mech,
        [ulMinKeySize |-> 1, ulMaxKeySize |-> 2, flags |-> flags], CKK_AES, NoInfo, FALSE)

KeyAgreement ==
    sc_pkcs11_new_fw_mechanism(CKM.derive,
        [ulMinKeySize |-> 1, ulMaxKeySize |-> 3, flags |-> {"CKF_DERIVE"}],
        CKK_EC, NoInfo, FALSE)

\* Descriptors a card driver builds itself and hands to
\* sc_pkcs11_register_mechanism: a signer and a cipher that work on one part
\* only and leave the update (and size) hooks unset.
SinglePartSigner ==
    [ sc_pkcs11_new_fw_mechanism(CKM.rsa_single,
          [ulMinKeySize |-> 2, ulMaxKeySize |-> 4, flags |-> {"CKF_SIGN"}],
          CKK_RSA, NoInfo, FALSE)
      EXCEPT !.hooks = {"sign_init", "sign_final", "release"} ]

SinglePartCipher ==
    [ sc_pkcs11_new_fw_mechanism(CKM.aes_single,
          [ulMinKeySize |-> 1, ulMaxKeySize |-> 2, flags |-> {"CKF_ENCRYPT"}],
          CKK_AES, NoInfo, FALSE)
      EXCEPT !.hooks = {"encrypt_init", "encrypt", "release"} ]

TokenMechanisms ==
    LET m1 == RegisterOk(<< >>, DigestMechanism(CKM.sha))
        m2 == RegisterOk(m1, RawSigner)
        m3 == sc_pkcs11_register_sign_and_hash_mechanism(m2, CKM.sha_rsa, CKM.sha, RawSigner)
        m4 == RegisterOk(m3, Cipher)
        m5 == RegisterOk(m4, KeyTransport(CKM.wrap, {"CKF_WRAP"}))
        m6 == RegisterOk(m5, KeyTransport(CKM.unwrap, {"CKF_UNWRAP"}))
        m7 == RegisterOk(m6, KeyTransport(CKM.wrap_unwrap, {"CKF_WRAP", "CKF_UNWRAP"}))
        m8 == RegisterOk(m7, KeyAgreement)
        m9 == RegisterOk(m8, SinglePartSigner)
    IN  RegisterOk(m9, SinglePartCipher)

\* Handles.  type is the index of the descriptor in the registry; priv the
\* operation_data the init hook attached; fed and sized are history (the update
\* data so far, the final calls that left the handle installed).
NoOp == [type |-> 0]
NoData == [set |-> FALSE]
NoMd == [open |-> FALSE]

NewHandle(n) ==
    [type |-> n, priv |-> NoData, fed |-> << >>, sized |-> 0]

\* new_operation_data, then the fields the init hooks fill in.
OperationData(info, md) ==
    [set |-> TRUE, info |-> info, md |-> md, buffer |-> << >>]

\* sc_pkcs11_new_operation for the nested digest, after its md_init hook.
NestedDigest(hash_type) ==
    [open |-> TRUE, type |-> hash_type, fed |-> << >>, finals |-> 0]

\* The session manager's primitives.
session_start_operation(o, fam, n) == [o EXCEPT ![fam] = NewHandle(n)]
session_stop_operation(o, fam) == [o EXCEPT ![fam] = NoOp]
Installed(o) == { f \in Families : o[f] # NoOp }

\* (A variant that differs from the code: the nested digest of the operation
\* data is started as the session's digest operation.)
new_operation_starts_digest(o, data) ==
    IF data.set /\ data.md.open
    THEN session_start_operation(o, "DIGEST", data.md.type) ELSE o

\* sc_pkcs11_new_operation only allocates the nested operation for the
\* operation data: the session's operation table o stays as it is.
sc_pkcs11_new_operation(o, data) == o

NoInput == << -1 >>
\* call.derive when the call made no derivation: query and actual are the
\* answers of the two calls of the derive hook ("none": not called), qlen the
\* length the query reported, buflen the length the actual call was given,
\* outlen the length it reported, value whether CKA_VALUE of the derived key
\* was set.
NoDerive ==
    [ query |-> "none", qlen |-> 0, actual |-> "none", buflen |-> 0, outlen |-> 0,
      value |-> FALSE ]
IdleCall ==
    [ fn |-> "none", fam |-> "none", rv |-> OK, outnull |-> FALSE, found |-> FALSE,
      hooks |-> {}, primIn |-> NoInput, fed |-> << >>, swhash |-> FALSE,
      plen |-> 0, copied |-> 0, started |-> FALSE, hookerr |-> FALSE,
      mech |-> 0, key_type |-> 0, can_do |-> "none", md_rv |-> "none",
      live |-> {}, bits |-> 0, len |-> -1, signed |-> NoInput, sig |-> NoInput,
      derive |-> NoDerive, freed |-> "none" ]
CallOf(fn, fam, rv) == [IdleCall EXCEPT !.fn = fn, !.fam = fam, !.rv = rv]

(***************************************************************************)
(* Registry operations                                                     *)
(***************************************************************************)
\* query when the last call on the registry was not a find or list call.
NoQuery ==
    [ fn |-> "none", mech |-> 0, flags |-> {}, found |-> 0,
      null |-> FALSE, capacity |-> 0, written |-> << >>, count |-> 0, rv |-> "CKR_OK",
      sign_type |-> 0 ]

\* regcall.mt when no register call has been made.
NoRequest ==
    sc_pkcs11_new_fw_mechanism(0, [ulMinKeySize |-> 0, ulMaxKeySize |-> 0, flags |-> {}],
                               0, NoInfo, FALSE)

\* regcall when the last call on the registry was not a register call.
NoRegCall == [path |-> "none", rv |-> "CKR_OK", mt |-> NoRequest]

RegInit ==
    /\ mechanisms = << >>
    /\ storage = "null"
    /\ registered = {}
    /\ regcall = NoRegCall
    /\ query = NoQuery
    /\ ops = [f \in Families |-> NoOp]
    /\ call = IdleCall

\* sc_pkcs11_register_mechanism, the descriptor is already registered
\* (found under its own flags): merge, or fail when no slot is left.
RegisterExisting(mt) ==
    LET n == FindIndex(mechanisms, mt.mech, mt.mech_info.flags)
        i == IF n = 0 THEN 0 ELSE MergeSlot(mechanisms[n], mt)
    IN  /\ n # 0
        /\ mechanisms' = RegisterOk(mechanisms, mt)
        /\ storage' = storage
        /\ registered' = IF i = 0 THEN registered
                         ELSE registered \cup {<<mt.mech, mt.key_types[1]>>}
        /\ regcall' = [path   |-> IF i = 0 THEN "full"
                                  ELSE IF mechanisms[n].key_types[i] = mt.key_types[1]
                                       THEN "same" ELSE "slot",
                       rv     |-> IF i = 0 THEN "CKR_BUFFER_TOO_SMALL" ELSE "CKR_OK",
                       mt     |-> mt]

\* sc_pkcs11_register_mechanism, the descriptor is new: grow the array by
\* realloc, clone the descriptor, append.  realloc and the clone may fail.
RegisterNew(mt, realloc_ok, copy_rv) ==
    /\ FindIndex(mechanisms, mt.mech, mt.mech_info.flags) = 0
    /\ IF ~realloc_ok
       THEN /\ UNCHANGED <<mechanisms, storage, registered>>
            /\ regcall' = [path |-> "realloc_failed", rv |-> "CKR_HOST_MEMORY", mt |-> mt]
       ELSE IF copy_rv # "CKR_OK"
       THEN \* free(p): p is the block realloc returned; p11card->mechanisms still
            \* holds the pointer given to realloc, which is p itself or a block
            \* realloc has released.  Only a null pointer stays what it was.
            /\ mechanisms' = mechanisms
            /\ storage' = IF storage = "null" THEN "null" ELSE "freed"
            /\ registered' = registered
            /\ regcall' = [path |-> "copy_failed", rv |-> copy_rv, mt |-> mt]
       ELSE /\ mechanisms' = RegisterOk(mechanisms, mt)
            /\ storage' = "valid"
            /\ registered' = registered \cup {<<mt.mech, mt.key_types[1]>>}
            /\ regcall' = [path |-> "added", rv |-> "CKR_OK", mt |-> mt]

\* The outcomes of sc_pkcs11_copy_mechanism: calloc fails, or the descriptor's
\* copy_mech_data hook fails.
CopyOutcomes(mt) ==
    {"CKR_OK", "CKR_HOST_MEMORY"}
    \cup (IF mt.copy_mech_data THEN {"CKR_ARGUMENTS_BAD"} ELSE {})

\* One call of sc_pkcs11_register_mechanism with the descriptor mt.
RegisterCall(mt) ==
    \/ RegisterExisting(mt)
    \/ RegisterNew(mt, FALSE, "CKR_OK")
    \/ \E copy_rv \in CopyOutcomes(mt) : RegisterNew(mt, TRUE, copy_rv)

\* The token initialisation builds a descriptor for one of `requests` and
\* registers it.
RegisterFrom(requests) ==
    /\ storage # "freed"
    /\ \E r \in requests :
          RegisterCall(sc_pkcs11_new_fw_mechanism(r.mech,
                           [ulMinKeySize |-> KeySizeRange(r.kt).lo,
                            ulMaxKeySize |-> KeySizeRange(r.kt).hi,
                            flags        |-> r.flags],
                           r.kt, NoInfo, FALSE))
    /\ query' = NoQuery
    /\ UNCHANGED <<ops, call>>

sc_pkcs11_register_mechanism == RegisterFrom(RegRequests)

\* A register call on a registry whose array was freed: realloc of a dangling
\* pointer.  The heap may or may not still show the old contents.
RegisterDangling ==
    /\ storage = "freed"
    /\ regcall.path # "dangling"
    /\ \E seen \in {mechanisms, << >>} : mechanisms' = seen
    /\ \E rv \in {"CKR_OK", "CKR_HOST_MEMORY"} :
          regcall' = [path |-> "dangling", rv |-> rv, mt |-> NoRequest]
    /\ query' = NoQuery
    /\ UNCHANGED <<storage, registered, ops, call>>

\* The flag sets and ids a lookup may ask for; id 3 is never registered.
QueryFlagSets == SUBSET {"CKF_SIGN", "CKF_DECRYPT"}
QueryIds == MechIds \cup {3}

\* A call of sc_pkcs11_find_mechanism.  On a freed array the loop reads
\* released memory: it may report any descriptor or none.
FindMechanism ==
    /\ \E mech \in QueryIds, flags \in QueryFlagSets :
          \E n \in IF storage = "freed" THEN 0 .. Len(mechanisms)
                    ELSE {FindIndex(mechanisms, mech, flags)} :
             query' = [NoQuery EXCEPT !.fn = "find", !.mech = mech, !.flags = flags,
                                      !.found = n]
    /\ regcall' = NoRegCall
    /\ UNCHANGED <<mechanisms, storage, registered, ops, call>>

\* sc_pkcs11_get_mechanism_list: the loop over the array, writing an id while
\* the buffer has room and counting every descriptor.
MaxListCap == 3
RECURSIVE ListFrom(_, _, _, _, _)
ListFrom(mechs, null, capacity, n, out) ==
    IF n > Len(mechs) THEN out
    ELSE ListFrom(mechs, null, capacity, n + 1,
                  [ written |-> IF ~null /\ out.count < capacity
                                THEN Append(out.written, mechs[n].mech)
                                ELSE out.written,
                    count   |-> out.count + 1 ])

\* A variant that differs from the code: a buffer that is exactly full is
\* reported as too small.
list_rv_when_full(null, count, capacity) ==
    IF ~null /\ count >= capacity THEN "CKR_BUFFER_TOO_SMALL" ELSE "CKR_OK"

list_rv(null, count, capacity) ==
    IF ~null /\ count > capacity THEN "CKR_BUFFER_TOO_SMALL" ELSE "CKR_OK"

\* A call of sc_pkcs11_get_mechanism_list with a null list or a list of
\* `capacity` entries.  On a freed array the loop reads released memory, which
\* may or may not still show the old contents.
GetMechanismList ==
    /\ \E null \in BOOLEAN, capacity \in 0 .. MaxListCap :
          \E seen \in IF storage = "freed" THEN {mechanisms, << >>} ELSE {mechanisms} :
             LET out == ListFrom(seen, null, capacity, 1, [written |-> << >>, count |-> 0])
             IN  query' = [NoQuery EXCEPT !.fn = "list", !.null = null,
                                          !.capacity = capacity,
                                          !.written = out.written, !.count = out.count,
                                          !.rv = list_rv(null, out.count, capacity)]
    /\ regcall' = NoRegCall
    /\ UNCHANGED <<mechanisms, storage, registered, ops, call>>

RegNext ==
    \/ sc_pkcs11_register_mechanism \/ RegisterDangling
    \/ FindMechanism \/ GetMechanismList

RegSpec == RegInit /\ [][RegNext]_vars

(***************************************************************************)
(* Registration of hash-then-sign mechanisms (specification HashSpec): the *)
(* token initialisation registers raw signers and a digest, and derives    *)
(* the hash-then-sign mechanism from a registered raw signer.              *)
(***************************************************************************)
\* The raw signers of the token: one mechanism that signs and decrypts, for
\* RSA and for EC keys.
SignerRequests ==
    { [mech |-> 1, flags |-> {"CKF_SIGN", "CKF_DECRYPT"}, kt |-> k] : k \in {CKK_RSA, CKK_EC} }

RegisterSigner == RegisterFrom(SignerRequests)

\* The digest provider registers its descriptor.
RegisterDigest ==
    /\ storage # "freed"
    /\ RegisterCall(DigestMechanism(CKM.sha))
    /\ query' = NoQuery
    /\ UNCHANGED <<ops, call>>

\* The hash ids a derivation may name (CKM.none is never registered) and the
\* raw signer handed in: a descriptor of the registry, or 0 for a null pointer.
HashIds == {CKM.sha, CKM.none}
RawSigners(mechs) ==
    { n \in 1 .. Len(mechs) :
         "CKF_SIGN" \in mechs[n].mech_info.flags /\ mechs[n].mech_data = NoInfo }

\* sc_pkcs11_register_sign_and_hash_mechanism.  query records the request:
\* mech the hash id, found the digest descriptor the lookup gave, sign_type
\* the raw signer.
RegisterSignAndHash ==
    /\ storage # "freed"
    /\ \E hash_mech \in HashIds, sign_type \in {0} \cup RawSigners(mechanisms) :
          LET hash_type == FindIndex(mechanisms, hash_mech, {"CKF_DIGEST"})
              request == [NoQuery EXCEPT !.fn = "sign_and_hash", !.mech = hash_mech,
                                         !.flags = {"CKF_DIGEST"}, !.found = hash_type,
                                         !.sign_type = sign_type]
              refused(rv) ==
                  /\ regcall' = [path |-> "refused", rv |-> rv, mt |-> NoRequest]
                  /\ query' = [request EXCEPT !.rv = rv]
                  /\ UNCHANGED <<mechanisms, storage, registered>>
          IN  IF sign_type = 0 \/ hash_type = 0 THEN refused("CKR_MECHANISM_INVALID")
              ELSE \/ refused("CKR_HOST_MEMORY")
                   \/ /\ RegisterCall(SignAndHashMechanism(mechanisms, CKM.sha_rsa,
                                                            hash_mech, mechanisms[sign_type]))
                      /\ query' = [request EXCEPT !.rv = regcall'.rv]
    /\ UNCHANGED <<ops, call>>

HashNext ==
    \/ RegisterSigner \/ RegisterDangling
    \/ RegisterDigest \/ RegisterSignAndHash

HashSpec == RegInit /\ [][HashNext]_vars

(***************************************************************************)
(* The hooks of the framework descriptors.  Each is the set of outcomes    *)
(* the hook can have: what it returns and the operation_data it leaves,    *)
(* one outcome for every answer of the key, the nested digest and malloc.  *)
(***************************************************************************)
KeyRv == {OK, BTS, ERR}

\* What the key object does when asked: its can_do and init_params hooks may be
\* absent.
KeyBehaviours ==
    [ can_do      : {"absent", OK, "CKR_FUNCTION_NOT_SUPPORTED", ERR},
      init_params : {"absent", OK, ERR} ]

\* The digest of a message, as one value that no data byte equals.
RECURSIVE Enc(_)
Enc(s) == IF s = << >> THEN 0 ELSE Head(s) + 3 * Enc(Tail(s))
DigestOf(s) == 10 + Enc(s)

\* What md_final of the nested digest delivers: the digest of what was fed; once
\* the digest context was finalised, that or whatever the context then yields.
HashValues(md) ==
    IF md.finals = 0 THEN {DigestOf(md.fed)} ELSE {DigestOf(md.fed), 9}

HookSet(n, h) == h \in mechanisms[n].hooks

\* unsigned int new_len = data->buffer_len + in_len: the sum, cut to the width
\* of unsigned int.
append_new_len(buffer_len, in_len) == (buffer_len + in_len) % 2^IntBits

\* signature_data_buffer_append.  buffer_len is the length of buffer.  When
\* new_len is less than the bytes to copy, memcpy writes past the end of the
\* new buffer: the call does not return, or returns with the new_len bytes the
\* buffer holds.
signature_data_buffer_append(data, in) ==
    IF ~data.set THEN {[rv |-> "CKR_ARGUMENTS_BAD", priv |-> data]}
    ELSE IF Len(in) = 0 THEN {[rv |-> OK, priv |-> data]}
    ELSE LET new_len == append_new_len(Len(data.buffer), Len(in))
             bytes == data.buffer \o in
         IN  {[rv |-> "CKR_HOST_MEMORY", priv |-> data]}
             \cup
             IF new_len >= Len(bytes)
             THEN {[rv |-> OK, priv |-> [data EXCEPT !.buffer = bytes]]}
             ELSE { [rv |-> CRASH, priv |-> data],
                    [rv |-> OK,
                     priv |-> [data EXCEPT !.buffer = SubSeq(bytes, 1, new_len)]] }

\* can_do_it: whether the key's can_do said the card performs the mechanism
\* itself.  Without a can_do hook it stays 0.
can_do_it_unless_refused(can_do) == can_do \in {OK, "CKR_FUNCTION_NOT_SUPPORTED"}

can_do_it(can_do) == can_do = OK

\* The failure path of the nested digest set-up: of the heap objects built so
\* far, the nested operation and the operation data are released.
nested_failure_frees_data_only(objs) == objs \ {"data"}

nested_failure_frees(objs) == objs \ {"md", "data"}

\* In the outcomes of the init hooks: can_do is the answer of the key's can_do
\* ("none": not asked), md_rv what came of setting up the nested digest
\* ("none": not attempted), live the heap objects the hook built that are
\* still allocated when it returns.
sc_pkcs11_signature_init(mt, k) ==
    {[can_do |-> "none", rv |-> "CKR_HOST_MEMORY", priv |-> NoData,
      md_rv |-> "none", live |-> {}]}
    \cup
    IF k.can_do \notin {"absent", OK, "CKR_FUNCTION_NOT_SUPPORTED"}
    THEN {[can_do |-> k.can_do, rv |-> k.can_do, priv |-> NoData,
           md_rv |-> "none", live |-> {}]}
    ELSE IF k.init_params \notin {"absent", OK}
    THEN {[can_do |-> k.can_do, rv |-> k.init_params, priv |-> NoData,
           md_rv |-> "none", live |-> {}]}
    ELSE IF mt.mech_data # NoInfo /\ ~can_do_it(k.can_do)
    THEN { [can_do |-> k.can_do, rv |-> "CKR_HOST_MEMORY", priv |-> NoData,
            md_rv |-> "CKR_HOST_MEMORY", live |-> nested_failure_frees({"data"})],
           [can_do |-> k.can_do, rv |-> ERR, priv |-> NoData,
            md_rv |-> ERR, live |-> nested_failure_frees({"data", "md"})],
           [can_do |-> k.can_do, rv |-> OK,
            priv |-> OperationData(TRUE, NestedDigest(mt.mech_data.hash_type)),
            md_rv |-> OK, live |-> {"data", "md"}] }
    ELSE {[can_do |-> k.can_do, rv |-> OK, priv |-> OperationData(FALSE, NoMd),
           md_rv |-> "none", live |-> {"data"}]}

sc_pkcs11_signature_update(data, in) ==
    IF data.md.open
    THEN { [rv |-> rv,
            priv |-> IF rv = OK THEN [data EXCEPT !.md.fed = @ \o in] ELSE data] :
           rv \in KeyRv }
    ELSE signature_data_buffer_append(data, in)

\* What sc_pkcs11_signature_final makes of a failing md_final of the nested
\* digest: the 64-byte local hash buffer being too small is a failure of the
\* function, not of the caller's buffer.
hash_final_rv_passed(md_rv) == md_rv

hash_final_rv(md_rv) == IF md_rv = BTS THEN "CKR_FUNCTION_FAILED" ELSE md_rv

\* md_rv is what md_final of the nested digest answered ("none": not called).
sc_pkcs11_signature_final(data) ==
    IF data.md.open
    THEN { [rv |-> hash_final_rv(md_rv), priv |-> data, primIn |-> NoInput,
            md_rv |-> md_rv] : md_rv \in {BTS, ERR} }
         \cup UNION { LET done == [data EXCEPT !.md.finals = @ + 1]
                      IN  UNION { IF a.rv # OK
                                  THEN {[rv |-> a.rv, priv |-> a.priv, primIn |-> NoInput,
                                         md_rv |-> OK]}
                                  ELSE { [rv |-> rv, priv |-> a.priv,
                                          primIn |-> a.priv.buffer, md_rv |-> OK] :
                                         rv \in KeyRv } :
                                  a \in signature_data_buffer_append(done, <<h>>) } :
                      h \in HashValues(data.md) }
    ELSE { [rv |-> rv, priv |-> data, primIn |-> data.buffer, md_rv |-> "none"] :
           rv \in KeyRv }

sc_pkcs11_verify_init(mt, k) ==
    {[can_do |-> "none", rv |-> "CKR_HOST_MEMORY", priv |-> NoData,
      md_rv |-> "none", live |-> {}]}
    \cup
    IF k.can_do \notin {"absent", OK, "CKR_FUNCTION_NOT_SUPPORTED"}
    THEN {[can_do |-> k.can_do, rv |-> k.can_do, priv |-> NoData,
           md_rv |-> "none", live |-> {}]}
    ELSE IF k.init_params \notin {"absent", OK}
    THEN {[can_do |-> k.can_do, rv |-> k.init_params, priv |-> NoData,
           md_rv |-> "none", live |-> {}]}
    ELSE IF mt.mech_data # NoInfo
    THEN { [can_do |-> k.can_do, rv |-> "CKR_HOST_MEMORY", priv |-> NoData,
            md_rv |-> "CKR_HOST_MEMORY", live |-> nested_failure_frees({"data"})],
           [can_do |-> k.can_do, rv |-> ERR, priv |-> NoData,
            md_rv |-> ERR, live |-> nested_failure_frees({"data", "md"})],
           [can_do |-> k.can_do, rv |-> OK,
            priv |-> OperationData(TRUE, NestedDigest(mt.mech_data.hash_type)),
            md_rv |-> OK, live |-> {"data", "md"}] }
    ELSE {[can_do |-> k.can_do, rv |-> OK, priv |-> OperationData(FALSE, NoMd),
           md_rv |-> "none", live |-> {"data"}]}

\* sc_pkcs11_verify_update hands the data to the nested digest when there is
\* one, and accumulates it otherwise.
verify_update_drops_data(data, in) ==
    IF data.md.open
    THEN { [rv |-> rv, priv |-> data] : rv \in KeyRv }
    ELSE signature_data_buffer_append(data, in)

sc_pkcs11_verify_update(data, in) ==
    IF data.md.open
    THEN { [rv |-> rv,
            priv |-> IF rv = OK THEN [data EXCEPT !.md.fed = @ \o in] ELSE data] :
           rv \in KeyRv }
    ELSE signature_data_buffer_append(data, in)

\* The key pair's raw primitives, which are not part of this file: the
\* signature of an input is that input under the key's tag, and the public key
\* accepts exactly the signatures its private key makes.
KeyTag == 0
RawSign(in) == <<KeyTag>> \o in
RawVerify(in, sig) == sig = RawSign(in)

\* sc_pkcs11_verify_data: with a nested digest, the digest is finalised and the
\* signature verified against it; without one, against the accumulated data.
sc_pkcs11_verify_data(md, buffer, sig) ==
    IF md.open
    THEN { IF RawVerify(<<h>>, sig) THEN OK ELSE "CKR_SIGNATURE_INVALID" :
           h \in HashValues(md) }
    ELSE { IF RawVerify(buffer, sig) THEN OK ELSE "CKR_SIGNATURE_INVALID" }

\* sc_pkcs11_verify_final: a null signature (NoInput), a failing attribute read
\* or allocation, or the answer of the verification primitive.
sc_pkcs11_verify_final(data, pSignature) ==
    IF pSignature = NoInput THEN {"CKR_ARGUMENTS_BAD"}
    ELSE {ERR, "CKR_HOST_MEMORY"}
         \cup sc_pkcs11_verify_data(data.md, data.buffer, pSignature)

\* The messages an operation can be fed, and the signatures a caller hands to
\* verify-final: none (a null pointer), or the key's signature of one of two
\* messages or of its digest.
Messages == UNION { [1 .. n -> Bytes] : n \in 0 .. MaxFed }
SignedMessages == { << >>, <<1>> }
Signatures ==
    {NoInput} \cup { RawSign(m) : m \in SignedMessages }
              \cup { RawSign(<<DigestOf(m)>>) : m \in SignedMessages }

\* sc_pkcs11_encrypt_init / sc_pkcs11_decrypt_init: key_rv is what the key's
\* encrypt or decrypt answers to the initialising call.
sc_pkcs11_encrypt_init(k, key_rv) ==
    {[can_do |-> "none", rv |-> "CKR_HOST_MEMORY", priv |-> NoData,
      md_rv |-> "none", live |-> {}]}
    \cup
    IF k.can_do \notin {"absent", OK, "CKR_FUNCTION_NOT_SUPPORTED"}
    THEN {[can_do |-> k.can_do, rv |-> k.can_do, priv |-> NoData,
           md_rv |-> "none", live |-> {}]}
    ELSE {[can_do |-> k.can_do, rv |-> key_rv, priv |-> OperationData(FALSE, NoMd),
           md_rv |-> "none", live |-> {"data"}]}

sc_pkcs11_decrypt_init(k, key_rv) ==
    {[can_do |-> "none", rv |-> "CKR_HOST_MEMORY", priv |-> NoData,
      md_rv |-> "none", live |-> {}]}
    \cup
    IF k.can_do \notin {"absent", OK, "CKR_FUNCTION_NOT_SUPPORTED"}
    THEN {[can_do |-> k.can_do, rv |-> k.can_do, priv |-> NoData,
           md_rv |-> "none", live |-> {}]}
    ELSE {[can_do |-> k.can_do, rv |-> key_rv, priv |-> OperationData(FALSE, NoMd),
           md_rv |-> "none", live |-> {"data"}]}

\* The one-shot hooks call the key twice: with the data, and, if that
\* succeeded, to finalise.  priv_data is read without a check.
sc_pkcs11_encrypt(data) ==
    IF ~data.set THEN {CRASH}
    ELSE UNION { IF rv1 # OK THEN {rv1} ELSE KeyRv : rv1 \in KeyRv }

sc_pkcs11_decrypt(data) ==
    IF ~data.set THEN {CRASH}
    ELSE UNION { IF rv1 # OK THEN {rv1} ELSE KeyRv : rv1 \in KeyRv }

\* The update and final hooks call the key once.
sc_pkcs11_encrypt_update(data) == IF ~data.set THEN {CRASH} ELSE KeyRv
sc_pkcs11_encrypt_final(data) == IF ~data.set THEN {CRASH} ELSE KeyRv
sc_pkcs11_decrypt_update(data) == IF ~data.set THEN {CRASH} ELSE KeyRv
sc_pkcs11_decrypt_final(data) == IF ~data.set THEN {CRASH} ELSE KeyRv

(***************************************************************************)
(* What each dispatcher function does with its hook's answer               *)
(***************************************************************************)
\* Variants that differ from the code, used to show that a property below
\* depends on the decision it is stated about.
update_keeps_on_error(rv) == rv = BTS
final_stops_on_too_small(rv, null) == ~null

md_update_stops(rv) == rv # OK
md_final_stops(rv, null) == rv # BTS
md_final_returns(rv, null) == IF rv = BTS /\ null THEN OK ELSE rv
sign_update_stops(rv) == rv # OK
sign_final_stops(rv, null) == rv # BTS /\ ~null
verif_update_stops(rv) == rv # OK
encr_stops(rv, null) == IF null THEN rv # OK ELSE rv # BTS
encr_update_stops(rv) == rv # OK /\ rv # BTS
encr_final_stops(rv, null) == IF null THEN rv # OK ELSE rv # BTS
decr_stops(rv, null) == rv # BTS /\ ~null
decr_update_stops(rv) == rv # OK /\ rv # BTS
decr_final_stops(rv, null) == IF null THEN rv # OK ELSE rv # BTS

\* sc_pkcs11_encr_init after the handle is installed: the init hook, then the
\* key's init_params; either failure stops the operation.
encr_init_result(hook_rv, params_rv) ==
    IF hook_rv # OK THEN [rv |-> hook_rv, stop |-> TRUE]
    ELSE IF params_rv \notin {"absent", OK} THEN [rv |-> params_rv, stop |-> TRUE]
    ELSE [rv |-> OK, stop |-> FALSE]

\* sc_pkcs11_decr_init after the handle is installed: the init hook, then the
\* key's init_params whatever the hook returned; its answer replaces the hook's,
\* and its failure returns at once.
decr_init_result(hook_rv, params_rv) ==
    IF params_rv = "absent" THEN [rv |-> hook_rv, stop |-> hook_rv # OK]
    ELSE IF params_rv # OK THEN [rv |-> params_rv, stop |-> FALSE]
    ELSE [rv |-> OK, stop |-> FALSE]

\* Whether the init functions refuse a parameter longer than mechanism_params.
sign_init_checks_params == TRUE
verif_init_checks_params == FALSE
encr_init_checks_params == FALSE
decr_init_checks_params == FALSE

(***************************************************************************)
(* The dispatcher                                                          *)
(***************************************************************************)
Init ==
    /\ mechanisms = TokenMechanisms
    /\ storage = "valid"
    /\ registered = {}
    /\ regcall = NoRegCall
    /\ query = NoQuery
    /\ ops = [f \in Families |-> NoOp]
    /\ call = IdleCall

\* sc_mem_secure_clear_free(buffer, len): the buffer is released after its
\* first len bytes were overwritten with zeros.
sc_mem_secure_clear_free(buffer, len) == [size |-> Len(buffer), cleared |-> len]

\* (A variant that differs from the code: the buffer is handed to free as it
\* is.)
operation_data_plain_free(data) ==
    IF ~data.set THEN {} ELSE {[size |-> Len(data.buffer), cleared |-> 0]}

\* operation_data_release: the buffers it releases.  buffer_len is the length
\* of the buffer.
operation_data_release(data) ==
    IF ~data.set THEN {}
    ELSE {sc_mem_secure_clear_free(data.buffer, Len(data.buffer))}

\* The buffers a call releases that turns the operation table o into o2: the
\* buffer of every handle that left the table, through the release hook of its
\* descriptor (sc_pkcs11_release_operation), and the buffer an append of
\* signature_data_buffer_append superseded.
Released(o, o2) ==
    UNION { IF o[f] = NoOp \/ o2[f] = o[f] THEN {}
            ELSE IF o2[f] = NoOp
            THEN IF HookSet(o[f].type, "release")
                 THEN operation_data_release(o[f].priv) ELSE {}
            ELSE IF o[f].priv.set /\ o2[f].priv.set
                    /\ o2[f].priv.buffer # o[f].priv.buffer
            THEN {sc_mem_secure_clear_free(o[f].priv.buffer, Len(o[f].priv.buffer))}
            ELSE {} :
            f \in Families }

\* What became of the bytes in the buffers a call released: "none" when it
\* released no byte, "unzeroed" when a released buffer kept some of its bytes.
FreedAs(frees) ==
    IF \A r \in frees : r.size = 0 THEN "none"
    ELSE IF \E r \in frees : r.cleared < r.size THEN "unzeroed"
    ELSE "zeroed"

Finish(o, c) ==
    /\ ops' = o
    /\ call' = [c EXCEPT !.freed = FreedAs(Released(ops, o))]
    /\ UNCHANGED regvars

Alive == call.rv # CRASH
CanStart(fam) == ops[fam] # NoOp \/ Cardinality(Installed(ops)) < MaxActive

\* The steps every init function takes before it installs the handle: find the
\* descriptor under the family's flag, check the key type, and (where the
\* function does so) refuse an oversized parameter.  OK means go on.
InitChecks(flag, mech, key_type, plen, checks_params) ==
    LET n == FindIndex(mechanisms, mech, {flag})
    IN  IF n = 0 THEN "CKR_MECHANISM_INVALID"
        ELSE IF validate_key_type(mechanisms[n], key_type) # OK
             THEN "CKR_KEY_TYPE_INCONSISTENT"
        ELSE IF checks_params /\ plen > ParamCap THEN "CKR_ARGUMENTS_BAD"
        ELSE OK

\* After session_start_operation: memcpy of the parameter into
\* mechanism_params, then one of `results` (what the init hook and the code
\* after it come to).  A parameter longer than mechanism_params overruns the
\* handle: the call goes on as if nothing happened, or does not return.
AfterStart(fam, n, base, results) ==
    \/ \E r \in results :
          Finish(IF r.stop THEN session_stop_operation(ops, fam)
                 ELSE sc_pkcs11_new_operation(
                          [session_start_operation(ops, fam, n) EXCEPT ![fam].priv = r.priv],
                          r.priv),
                 [base EXCEPT !.rv = r.rv, !.started = TRUE, !.copied = base.plen,
                              !.hooks = {"init"}, !.hookerr = r.failed,
                              !.can_do = r.can_do, !.md_rv = r.md_rv,
                              !.live = IF r.stop /\ r.priv.set /\ HookSet(n, "release")
                                       THEN {} ELSE r.live])
    \/ /\ base.plen > ParamCap
       /\ Finish(session_start_operation(ops, fam, n),
                 [base EXCEPT !.rv = CRASH, !.started = TRUE, !.copied = base.plen])

Unset ==
    {[rv |-> CRASH, stop |-> FALSE, priv |-> NoData, failed |-> FALSE, can_do |-> "none",
      md_rv |-> "none", live |-> {}]}

SignInitResults(n) ==
    IF ~HookSet(n, "sign_init") THEN Unset
    ELSE { [rv |-> o.rv, stop |-> o.rv # OK, priv |-> o.priv, failed |-> o.rv # OK,
             can_do |-> o.can_do, md_rv |-> o.md_rv, live |-> o.live] :
           o \in UNION { sc_pkcs11_signature_init(mechanisms[n], k) : k \in KeyBehaviours } }

VerifInitResults(n) ==
    IF ~HookSet(n, "verif_init") THEN Unset
    ELSE { [rv |-> o.rv, stop |-> o.rv # OK, priv |-> o.priv, failed |-> o.rv # OK,
             can_do |-> o.can_do, md_rv |-> o.md_rv, live |-> o.live] :
           o \in UNION { sc_pkcs11_verify_init(mechanisms[n], k) : k \in KeyBehaviours } }

EncrInitResults(n) ==
    IF ~HookSet(n, "encrypt_init") THEN Unset
    ELSE UNION { UNION { { [rv   |-> encr_init_result(o.rv, k.init_params).rv,
                            stop |-> encr_init_result(o.rv, k.init_params).stop,
                            priv |-> o.priv, can_do |-> o.can_do,
                            md_rv |-> o.md_rv, live |-> o.live,
                            failed |-> o.rv # OK \/ k.init_params \notin {"absent", OK}] :
                           o \in sc_pkcs11_encrypt_init(k, key_rv) } :
                         key_rv \in {OK, ERR} } : k \in KeyBehaviours }

DecrInitResults(n) ==
    IF ~HookSet(n, "decrypt_init") THEN Unset
    ELSE UNION { UNION { { [rv   |-> decr_init_result(o.rv, k.init_params).rv,
                            stop |-> decr_init_result(o.rv, k.init_params).stop,
                            priv |-> o.priv, can_do |-> o.can_do,
                            md_rv |-> o.md_rv, live |-> o.live,
                            failed |-> o.rv # OK \/ k.init_params \notin {"absent", OK}] :
                           o \in sc_pkcs11_decrypt_init(k, key_rv) } :
                         key_rv \in {OK, ERR} } : k \in KeyBehaviours }

\* ---- digest ----
MdInitCall ==
    \E mech \in SessMechIds :
       LET n == FindIndex(mechanisms, mech, {"CKF_DIGEST"})
           base == [CallOf("init", "DIGEST", OK) EXCEPT !.mech = mech]
       IN  IF n = 0 THEN Finish(ops, [base EXCEPT !.rv = "CKR_MECHANISM_INVALID"])
           ELSE \/ Finish(ops, [base EXCEPT !.rv = "CKR_HOST_MEMORY"])
                \/ /\ ~HookSet(n, "md_init")
                   /\ Finish(session_start_operation(ops, "DIGEST", n),
                             [base EXCEPT !.rv = CRASH, !.started = TRUE])
                \/ /\ HookSet(n, "md_init")
                   /\ \E rv \in {OK, ERR} :
                      Finish(IF rv # OK THEN session_stop_operation(ops, "DIGEST")
                             ELSE session_start_operation(ops, "DIGEST", n),
                             [base EXCEPT !.rv = rv, !.started = TRUE, !.hooks = {"init"},
                                          !.hookerr = rv # OK])

sc_pkcs11_md_init == Alive /\ CanStart("DIGEST") /\ MdInitCall

sc_pkcs11_md_update ==
    /\ Alive
    /\ LET op == ops["DIGEST"]
           base == [CallOf("update", "DIGEST", OK) EXCEPT !.found = op # NoOp]
       IN  IF op = NoOp THEN Finish(ops, [base EXCEPT !.rv = NOT_INIT])
           ELSE \E rv \in KeyRv :
                   Finish(IF md_update_stops(rv) THEN session_stop_operation(ops, "DIGEST")
                          ELSE ops,
                          [base EXCEPT !.rv = rv, !.hooks = {"update"}])

sc_pkcs11_md_final ==
    /\ Alive
    /\ \E null \in BOOLEAN :
          LET op == ops["DIGEST"]
              base == [CallOf("final", "DIGEST", OK) EXCEPT !.found = op # NoOp,
                                                             !.outnull = null]
          IN  IF op = NoOp THEN Finish(ops, [base EXCEPT !.rv = NOT_INIT])
              ELSE \E rv \in KeyRv :
                      /\ md_final_stops(rv, null) \/ op.sized < MaxSized
                      /\ Finish(IF md_final_stops(rv, null)
                                THEN session_stop_operation(ops, "DIGEST")
                                ELSE [ops EXCEPT !["DIGEST"].sized = @ + 1],
                                [base EXCEPT !.rv = md_final_returns(rv, null),
                                             !.hooks = {"final"}])

\* ---- sign ----
SignInitFor(mechs) ==
    \E mech \in mechs, key_type \in SessKeyTypes, plen \in ParamLens :
       LET chk == InitChecks("CKF_SIGN", mech, key_type, plen, sign_init_checks_params)
           n == FindIndex(mechanisms, mech, {"CKF_SIGN"})
           base == [CallOf("init", "SIGN", OK) EXCEPT !.plen = plen, !.mech = mech,
                                                        !.key_type = key_type]
       IN  IF chk # OK THEN Finish(ops, [base EXCEPT !.rv = chk])
           ELSE \/ Finish(ops, [base EXCEPT !.rv = "CKR_HOST_MEMORY"])
                \/ AfterStart("SIGN", n, base, SignInitResults(n))

sc_pkcs11_sign_init == Alive /\ CanStart("SIGN") /\ SignInitFor(SessMechIds)

sc_pkcs11_sign_update ==
    /\ Alive
    /\ \E in \in Chunks :
          LET op == ops["SIGN"]
              base == [CallOf("update", "SIGN", OK) EXCEPT !.found = op # NoOp]
          IN  IF op = NoOp THEN Finish(ops, [base EXCEPT !.rv = NOT_INIT])
              ELSE /\ Len(op.fed) + Len(in) <= MaxFed
                   /\ IF ~HookSet(op.type, "sign_update")
                      THEN Finish(session_stop_operation(ops, "SIGN"),
                                  [base EXCEPT !.rv = "CKR_KEY_TYPE_INCONSISTENT"])
                      ELSE \E o \in sc_pkcs11_signature_update(op.priv, in) :
                              Finish(IF sign_update_stops(o.rv)
                                     THEN session_stop_operation(ops, "SIGN")
                                     ELSE [ops EXCEPT !["SIGN"].priv = o.priv,
                                                      !["SIGN"].fed = @ \o in],
                                     [base EXCEPT !.rv = o.rv, !.hooks = {"update"}])

sc_pkcs11_sign_final ==
    /\ Alive
    /\ \E null \in BOOLEAN :
          LET op == ops["SIGN"]
              base == [CallOf("final", "SIGN", OK) EXCEPT !.found = op # NoOp,
                                                           !.outnull = null]
          IN  IF op = NoOp THEN Finish(ops, [base EXCEPT !.rv = NOT_INIT])
              ELSE IF ~HookSet(op.type, "sign_final")
              THEN /\ sign_final_stops("CKR_KEY_TYPE_INCONSISTENT", null) \/ op.sized < MaxSized
                   /\ Finish(IF sign_final_stops("CKR_KEY_TYPE_INCONSISTENT", null)
                             THEN session_stop_operation(ops, "SIGN")
                             ELSE [ops EXCEPT !["SIGN"].sized = @ + 1],
                             [base EXCEPT !.rv = "CKR_KEY_TYPE_INCONSISTENT"])
              ELSE \E o \in sc_pkcs11_signature_final(op.priv) :
                      /\ sign_final_stops(o.rv, null) \/ op.sized < MaxSized
                      /\ Finish(IF sign_final_stops(o.rv, null)
                                THEN session_stop_operation(ops, "SIGN")
                                ELSE [ops EXCEPT !["SIGN"].priv = o.priv,
                                                 !["SIGN"].sized = @ + 1],
                                [base EXCEPT !.rv = o.rv, !.hooks = {"final"},
                                             !.primIn = o.primIn, !.fed = op.fed,
                                             !.swhash = op.priv.md.open,
                                             !.md_rv = o.md_rv])

\* The keys a size query may meet: the declared key type and the value of
\* CKA_MODULUS_BITS.
SizeKeyTypes ==
    {CKK_RSA, CKK_EC, CKK_EC_EDWARDS, CKK_EC_MONTGOMERY, CKK_GOSTR3410,
     CKK_AES, CKK_VENDOR_DEFINED}
ModulusBits ==
    {0, 1, 7, 8, 9, 15, 16, 17, 255, 256, 257, 448, 521, 1024, 2047, 2048, 4096}

\* (A variant that differs from the code: bits to bytes, rounding down.)
bits_to_bytes_floor(bits) == bits \div 8

\* "convert bits to bytes": (*pLength + 7) / 8
bits_to_bytes(bits) == (bits + 7) \div 8

\* sc_pkcs11_signature_size on a key of the given type and size: the outcomes
\* of reading CKA_KEY_TYPE, of the switch and of reading CKA_MODULUS_BITS.
\* len is *pLength on return (-1: not written).
SignatureSize(key_type, bits) ==
    {[rv |-> ERR, len |-> -1]}
    \cup
    IF key_type = CKK_RSA
    THEN {[rv |-> ERR, len |-> -1], [rv |-> OK, len |-> bits_to_bytes(bits)]}
    ELSE IF key_type \in {CKK_EC, CKK_EC_EDWARDS, CKK_EC_MONTGOMERY}
    THEN {[rv |-> ERR, len |-> -1], [rv |-> OK, len |-> bits_to_bytes(bits) * 2]}
    ELSE IF key_type = CKK_GOSTR3410
    THEN {[rv |-> ERR, len |-> -1], [rv |-> OK, len |-> bits_to_bytes(bits) * 2]}
    ELSE {[rv |-> "CKR_MECHANISM_INVALID", len |-> -1]}

\* What sc_pkcs11_signature_size can return.
sc_pkcs11_signature_size ==
    { o.rv : o \in UNION { SignatureSize(kt, b) : kt \in SizeKeyTypes, b \in ModulusBits } }

\* (A variant that differs from the code: a failing size query leaves the
\* operation as it is.)
sign_size_never_stops(rv) == FALSE

\* done: if (rv != CKR_OK) session_stop_operation
sign_size_stops(rv) == rv # OK

sc_pkcs11_sign_size ==
    /\ Alive
    /\ LET op == ops["SIGN"]
           base == [CallOf("size", "SIGN", OK) EXCEPT !.found = op # NoOp]
       IN  IF op = NoOp THEN Finish(ops, [base EXCEPT !.rv = NOT_INIT])
           ELSE \E rv \in IF ~HookSet(op.type, "sign_size")
                          THEN {"CKR_KEY_TYPE_INCONSISTENT"}
                          ELSE sc_pkcs11_signature_size :
                   /\ sign_size_stops(rv) \/ op.sized < MaxSized
                   /\ Finish(IF sign_size_stops(rv)
                             THEN session_stop_operation(ops, "SIGN")
                             ELSE [ops EXCEPT !["SIGN"].sized = @ + 1],
                             [base EXCEPT !.rv = rv,
                                          !.hooks = IF HookSet(op.type, "sign_size")
                                                    THEN {"size"} ELSE {}])

\* ---- verify ----
VerifInitFor(mechs) ==
    \E mech \in mechs, key_type \in SessKeyTypes, plen \in ParamLens :
       LET chk == InitChecks("CKF_VERIFY", mech, key_type, plen, verif_init_checks_params)
           n == FindIndex(mechanisms, mech, {"CKF_VERIFY"})
           base == [CallOf("init", "VERIFY", OK) EXCEPT !.plen = plen, !.mech = mech,
                                                        !.key_type = key_type]
       IN  IF chk # OK THEN Finish(ops, [base EXCEPT !.rv = chk])
           ELSE \/ Finish(ops, [base EXCEPT !.rv = "CKR_HOST_MEMORY"])
                \/ AfterStart("VERIFY", n, base, VerifInitResults(n))

sc_pkcs11_verif_init == Alive /\ CanStart("VERIFY") /\ VerifInitFor(SessMechIds)

sc_pkcs11_verif_update ==
    /\ Alive
    /\ \E in \in Chunks :
          LET op == ops["VERIFY"]
              base == [CallOf("update", "VERIFY", OK) EXCEPT !.found = op # NoOp]
          IN  IF op = NoOp THEN Finish(ops, [base EXCEPT !.rv = NOT_INIT])
              ELSE /\ Len(op.fed) + Len(in) <= MaxFed
                   /\ IF ~HookSet(op.type, "verif_update")
                      THEN Finish(session_stop_operation(ops, "VERIFY"),
                                  [base EXCEPT !.rv = "CKR_KEY_TYPE_INCONSISTENT"])
                      ELSE \E o \in sc_pkcs11_verify_update(op.priv, in) :
                              Finish(IF verif_update_stops(o.rv)
                                     THEN session_stop_operation(ops, "VERIFY")
                                     ELSE [ops EXCEPT !["VERIFY"].priv = o.priv,
                                                      !["VERIFY"].fed = @ \o in],
                                     [base EXCEPT !.rv = o.rv, !.hooks = {"update"}])

sc_pkcs11_verif_final ==
    /\ Alive
    /\ \E pSignature \in Signatures :
          LET op == ops["VERIFY"]
              base == [CallOf("final", "VERIFY", OK) EXCEPT
                          !.found = op # NoOp, !.outnull = (pSignature = NoInput)]
          IN  IF op = NoOp THEN Finish(ops, [base EXCEPT !.rv = NOT_INIT])
              ELSE IF ~HookSet(op.type, "verif_final")
              THEN Finish(session_stop_operation(ops, "VERIFY"),
                          [base EXCEPT !.rv = "CKR_KEY_TYPE_INCONSISTENT"])
              ELSE \E rv \in sc_pkcs11_verify_final(op.priv, pSignature) :
                      Finish(session_stop_operation(ops, "VERIFY"),
                             [base EXCEPT !.rv = rv, !.hooks = {"final"}, !.fed = op.fed,
                                          !.swhash = op.priv.md.open])

\* ---- encrypt ----
sc_pkcs11_encr_init ==
    /\ Alive /\ CanStart("ENCRYPT")
    /\ \E mech \in SessMechIds, key_type \in SessKeyTypes, plen \in ParamLens :
          LET chk == InitChecks("CKF_ENCRYPT", mech, key_type, plen, encr_init_checks_params)
              n == FindIndex(mechanisms, mech, {"CKF_ENCRYPT"})
              base == [CallOf("init", "ENCRYPT", OK) EXCEPT !.plen = plen, !.mech = mech,
                                                           !.key_type = key_type]
          IN  IF chk # OK THEN Finish(ops, [base EXCEPT !.rv = chk])
              ELSE \/ Finish(ops, [base EXCEPT !.rv = "CKR_HOST_MEMORY"])
                   \/ AfterStart("ENCRYPT", n, base, EncrInitResults(n))

\* The three calls on an installed encrypt or decrypt handle have one shape:
\* the hook is called without a check that it is set; its answer decides
\* whether the operation stops.
CipherCall(fam, fn, null, hook, outcomes, stops) ==
    LET op == ops[fam]
        base == [CallOf(fn, fam, OK) EXCEPT !.found = op # NoOp, !.outnull = null]
    IN  IF op = NoOp THEN Finish(ops, [base EXCEPT !.rv = NOT_INIT])
        ELSE IF ~HookSet(op.type, hook)
        THEN Finish(ops, [base EXCEPT !.rv = CRASH, !.hooks = {fn}])
        ELSE \E rv \in outcomes :
                LET stop == IF rv = CRASH THEN FALSE ELSE stops[rv]
                IN  /\ rv = CRASH \/ stop \/ op.sized < MaxSized
                    /\ Finish(IF rv = CRASH THEN ops
                              ELSE IF stop THEN session_stop_operation(ops, fam)
                              ELSE [ops EXCEPT ![fam].sized = @ + 1],
                              [base EXCEPT !.rv = rv, !.hooks = {fn}])

sc_pkcs11_encr ==
    /\ Alive
    /\ \E null \in BOOLEAN :
          CipherCall("ENCRYPT", "oneshot", null, "encrypt",
                     IF ops["ENCRYPT"] = NoOp THEN {}
                     ELSE sc_pkcs11_encrypt(ops["ENCRYPT"].priv),
                     [rv \in KeyRv |-> encr_stops(rv, null)])

sc_pkcs11_encr_update ==
    /\ Alive
    /\ \E null \in BOOLEAN :
          CipherCall("ENCRYPT", "update", null, "encrypt_update",
                     IF ops["ENCRYPT"] = NoOp THEN {}
                     ELSE sc_pkcs11_encrypt_update(ops["ENCRYPT"].priv),
                     [rv \in KeyRv |-> encr_update_stops(rv)])

sc_pkcs11_encr_final ==
    /\ Alive
    /\ \E null \in BOOLEAN :
          CipherCall("ENCRYPT", "final", null, "encrypt_final",
                     IF ops["ENCRYPT"] = NoOp THEN {}
                     ELSE sc_pkcs11_encrypt_final(ops["ENCRYPT"].priv),
                     [rv \in KeyRv |-> encr_final_stops(rv, null)])

\* ---- decrypt ----
sc_pkcs11_decr_init ==
    /\ Alive /\ CanStart("DECRYPT")
    /\ \E mech \in SessMechIds, key_type \in SessKeyTypes, plen \in ParamLens :
          LET chk == InitChecks("CKF_DECRYPT", mech, key_type, plen, decr_init_checks_params)
              n == FindIndex(mechanisms, mech, {"CKF_DECRYPT"})
              base == [CallOf("init", "DECRYPT", OK) EXCEPT !.plen = plen, !.mech = mech,
                                                           !.key_type = key_type]
          IN  IF chk # OK THEN Finish(ops, [base EXCEPT !.rv = chk])
              ELSE \/ Finish(ops, [base EXCEPT !.rv = "CKR_HOST_MEMORY"])
                   \/ AfterStart("DECRYPT", n, base, DecrInitResults(n))

sc_pkcs11_decr ==
    /\ Alive
    /\ \E null \in BOOLEAN :
          CipherCall("DECRYPT", "oneshot", null, "decrypt",
                     IF ops["DECRYPT"] = NoOp THEN {}
                     ELSE sc_pkcs11_decrypt(ops["DECRYPT"].priv),
                     [rv \in KeyRv |-> decr_stops(rv, null)])

sc_pkcs11_decr_update ==
    /\ Alive
    /\ \E null \in BOOLEAN :
          CipherCall("DECRYPT", "update", null, "decrypt_update",
                     IF ops["DECRYPT"] = NoOp THEN {}
                     ELSE sc_pkcs11_decrypt_update(ops["DECRYPT"].priv),
                     [rv \in KeyRv |-> decr_update_stops(rv)])

sc_pkcs11_decr_final ==
    /\ Alive
    /\ \E null \in BOOLEAN :
          CipherCall("DECRYPT", "final", null, "decrypt_final",
                     IF ops["DECRYPT"] = NoOp THEN {}
                     ELSE sc_pkcs11_decrypt_final(ops["DECRYPT"].priv),
                     [rv \in KeyRv |-> decr_final_stops(rv, null)])

\* ---- wrap, unwrap, derive: one call starts the operation, calls the hook
\* and stops the operation ----
TransportMechIds == {CKM.wrap, CKM.unwrap, CKM.wrap_unwrap, CKM.none}
AgreementMechIds == {CKM.derive, CKM.none}
TransportKeyTypes == {CKK_AES, CKK_EC}

\* The capability flag each function hands to sc_pkcs11_find_mechanism.
wrap_flag == "CKF_UNWRAP"
unwrap_flag == "CKF_UNWRAP"
deri_flag == "CKF_DERIVE"

\* sc_pkcs11_wrap_operation / sc_pkcs11_unwrap_operation: CKR_ARGUMENTS_BAD
\* when the key has no wrap_key / unwrap_key, else the key's answer.
sc_pkcs11_wrap_operation(key_has_hook) ==
    IF ~key_has_hook THEN {"CKR_ARGUMENTS_BAD"} ELSE KeyRv

sc_pkcs11_unwrap_operation(key_has_hook) ==
    IF ~key_has_hook THEN {"CKR_ARGUMENTS_BAD"} ELSE KeyRv

\* The shape the three functions share: find under `flag`, check the key type,
\* start the operation, call the hook through the descriptor without a check
\* that it is set, stop the operation.
DirectCall(fam, flag, hook, mech, key_type, outcomes) ==
    LET n == FindIndex(mechanisms, mech, {flag})
        base == [CallOf("direct", fam, OK) EXCEPT !.mech = mech, !.key_type = key_type]
    IN  IF n = 0 THEN Finish(ops, [base EXCEPT !.rv = "CKR_MECHANISM_INVALID"])
        ELSE IF validate_key_type(mechanisms[n], key_type) # OK
        THEN Finish(ops, [base EXCEPT !.rv = "CKR_KEY_TYPE_INCONSISTENT"])
        ELSE \/ Finish(ops, [base EXCEPT !.rv = "CKR_HOST_MEMORY"])
             \/ IF ~HookSet(n, hook)
                THEN Finish(session_start_operation(ops, fam, n),
                            [base EXCEPT !.rv = CRASH, !.started = TRUE])
                ELSE \E o \in outcomes :
                        Finish(session_stop_operation(session_start_operation(ops, fam, n), fam),
                               [base EXCEPT !.rv = o.rv, !.started = TRUE, !.hooks = {hook},
                                            !.derive = o.derive])

sc_pkcs11_wrap ==
    /\ Alive
    /\ \E mech \in TransportMechIds, key_type \in TransportKeyTypes, has \in BOOLEAN :
          DirectCall("WRAP", wrap_flag, "wrap", mech, key_type,
                     { [rv |-> rv, derive |-> NoDerive] :
                       rv \in sc_pkcs11_wrap_operation(has) })

sc_pkcs11_unwrap ==
    /\ Alive
    /\ \E mech \in TransportMechIds, key_type \in TransportKeyTypes, has \in BOOLEAN :
          DirectCall("UNWRAP", unwrap_flag, "unwrap", mech, key_type,
                     { [rv |-> rv, derive |-> NoDerive] :
                       rv \in sc_pkcs11_unwrap_operation(has) })

\* The lengths the key's derive reports: 0 when the derived key stays on the
\* card.
DeriveLens == 0 .. MaxDerived

\* (A variant that differs from the code: the value is set whenever the
\* query reported a length.)
derive_sets_value_as_queried(qlen, rv, outlen) == qlen > 0

\* Whether CKA_VALUE of the derived key is set: reached only when the actual
\* call succeeded, and done only for a length that is not 0.
derive_sets_value(qlen, rv, outlen) == rv = OK /\ outlen > 0

\* sc_pkcs11_deri after session_start_operation: the derive hook is called
\* with no buffer for the length and, if that succeeded and the buffer could be
\* allocated, with the buffer and that length for the key.
sc_pkcs11_derive ==
    { [rv |-> rv1, derive |-> [NoDerive EXCEPT !.query = rv1]] : rv1 \in KeyRv \ {OK} }
    \cup
    UNION { { [rv |-> "CKR_HOST_MEMORY",
               derive |-> [NoDerive EXCEPT !.query = OK, !.qlen = qlen]] }
            \cup
            UNION { { [rv |-> rv2,
                       derive |-> [query |-> OK, qlen |-> qlen, actual |-> rv2,
                                   buflen |-> qlen,
                                   outlen |-> IF rv2 = OK THEN outlen ELSE 0,
                                   value |-> derive_sets_value(qlen, rv2, outlen)]] :
                      outlen \in DeriveLens } : rv2 \in KeyRv } :
            qlen \in DeriveLens }

sc_pkcs11_deri ==
    /\ Alive
    /\ \E mech \in AgreementMechIds, key_type \in TransportKeyTypes :
          DirectCall("DERIVE", deri_flag, "derive", mech, key_type, sc_pkcs11_derive)

Next ==
    \/ sc_pkcs11_md_init \/ sc_pkcs11_md_update \/ sc_pkcs11_md_final
    \/ sc_pkcs11_sign_init \/ sc_pkcs11_sign_update \/ sc_pkcs11_sign_final
    \/ sc_pkcs11_sign_size
    \/ sc_pkcs11_verif_init \/ sc_pkcs11_verif_update \/ sc_pkcs11_verif_final
    \/ sc_pkcs11_encr_init \/ sc_pkcs11_encr \/ sc_pkcs11_encr_update
    \/ sc_pkcs11_encr_final
    \/ sc_pkcs11_decr_init \/ sc_pkcs11_decr \/ sc_pkcs11_decr_update
    \/ sc_pkcs11_decr_final
    \/ sc_pkcs11_wrap \/ sc_pkcs11_unwrap \/ sc_pkcs11_deri

Spec == Init /\ [][Next]_vars

(***************************************************************************)
(* The signature size query taken alone (specification SizeSpec): the size *)
(* hook is applied to keys of every type and size.                         *)
(***************************************************************************)
SignatureSizeQuery ==
    /\ \E key_type \in SizeKeyTypes, bits \in ModulusBits :
          \E o \in SignatureSize(key_type, bits) :
             call' = [CallOf("size", "SIGN", o.rv) EXCEPT
                         !.hooks = {"size"}, !.key_type = key_type,
                         !.bits = bits, !.len = o.len]
    /\ UNCHANGED <<ops, mechanisms, storage, registered, regcall, query>>

SizeSpec == Init /\ [][SignatureSizeQuery]_vars

(***************************************************************************)
(* A session in which a digest operation runs beside a sign or a verify    *)
(* operation: the digest family's handle does not count towards MaxActive. *)
(***************************************************************************)
\* The sign and verify operations of such a session ask for the composed
\* mechanism or for one the token does not have.
ComposedMechs == {CKM.sha_rsa, CKM.none}

CanStartBeside(fam) ==
    \/ fam = "DIGEST" \/ ops[fam] # NoOp
    \/ Cardinality(Installed(ops) \ {"DIGEST"}) < MaxActive

BesideMdInit == Alive /\ CanStartBeside("DIGEST") /\ MdInitCall
BesideSignInit == Alive /\ CanStartBeside("SIGN") /\ SignInitFor(ComposedMechs)
BesideVerifInit == Alive /\ CanStartBeside("VERIFY") /\ VerifInitFor(ComposedMechs)

BesideNext ==
    \/ BesideMdInit \/ sc_pkcs11_md_update \/ sc_pkcs11_md_final
    \/ BesideSignInit \/ sc_pkcs11_sign_update \/ sc_pkcs11_sign_final
    \/ sc_pkcs11_sign_size
    \/ BesideVerifInit \/ sc_pkcs11_verif_update \/ sc_pkcs11_verif_final

BesideSpec == Init /\ [][BesideNext]_vars

(***************************************************************************)
(* The accumulation buffer of one operation data, appended to with chunks  *)
(* whose lengths are about half the range of unsigned int.  The handle's   *)
(* fed is the concatenation of the chunks appended with success.           *)
(***************************************************************************)
HalfRange == 2^(IntBits - 1)
LongLens == {0, HalfRange - 2, HalfRange - 1, HalfRange, HalfRange + 1}
LongChunks == { [i \in 1 .. n |-> b] : n \in LongLens, b \in Bytes }

AppendInit ==
    /\ mechanisms = TokenMechanisms
    /\ storage = "valid"
    /\ registered = {}
    /\ regcall = NoRegCall
    /\ query = NoQuery
    /\ ops = [ [f \in Families |-> NoOp] EXCEPT
                 !["SIGN"] = [NewHandle(FindIndex(TokenMechanisms, CKM.rsa, {"CKF_SIGN"}))
                                EXCEPT !.priv = OperationData(FALSE, NoMd)] ]
    /\ call = IdleCall

AppendData ==
    /\ Alive
    /\ \E in \in LongChunks :
          LET op == ops["SIGN"]
          IN  /\ Len(op.fed) + Len(in) <= 2^IntBits + 1
              /\ \E o \in signature_data_buffer_append(op.priv, in) :
                    /\ ops' = [ops EXCEPT !["SIGN"].priv = o.priv,
                                          !["SIGN"].fed = IF o.rv = OK THEN @ \o in ELSE @]
                    /\ call' = [CallOf("append", "SIGN", o.rv) EXCEPT
                                    !.found = TRUE, !.plen = Len(in),
                                    !.len = Len(op.priv.buffer)]
    /\ UNCHANGED regvars

AppendSpec == AppendInit /\ [][AppendData]_vars

(***************************************************************************)
(* A token whose one mechanism is a descriptor built by                    *)
(* sc_pkcs11_new_fw_mechanism for a set of capability flags, under every   *)
(* call of the dispatcher.                                                 *)
(***************************************************************************)
FwIds == {CKM.rsa, CKM.aes, CKM.wrap, CKM.derive}
FwFlagSets ==
    { {f} : f \in {"CKF_DIGEST", "CKF_SIGN", "CKF_VERIFY", "CKF_ENCRYPT", "CKF_DECRYPT",
                   "CKF_WRAP", "CKF_UNWRAP", "CKF_DERIVE"} }
    \cup {{"CKF_SIGN", "CKF_VERIFY"}}

FwInit ==
    /\ \E mech \in FwIds, flags \in FwFlagSets :
          mechanisms = RegisterOk(<< >>,
              sc_pkcs11_new_fw_mechanism(mech,
                  [ulMinKeySize |-> 1, ulMaxKeySize |-> 2, flags |-> flags],
                  CKK_AES, NoInfo, FALSE))
    /\ storage = "valid"
    /\ registered = {}
    /\ regcall = NoRegCall
    /\ query = NoQuery
    /\ ops = [f \in Families |-> NoOp]
    /\ call = IdleCall

FwSpec == FwInit /\ [][Next]_vars

(***************************************************************************)
(* A message signed and then verified under the same key pair and the same *)
(* mechanism: each action is one whole operation, init, one update for     *)
(* every byte of the message and final, with every call before the final   *)
(* one succeeding.                                                         *)
(***************************************************************************)
RoundTripMechs == {CKM.rsa, CKM.sha_rsa}

RECURSIVE SignFeed(_, _)
SignFeed(data, msg) ==
    IF msg = << >> THEN {data}
    ELSE UNION { SignFeed(o.priv, Tail(msg)) :
                 o \in { x \in sc_pkcs11_signature_update(data, <<Head(msg)>>) :
                         x.rv = OK } }

RECURSIVE VerifyFeed(_, _)
VerifyFeed(data, msg) ==
    IF msg = << >> THEN {data}
    ELSE UNION { VerifyFeed(o.priv, Tail(msg)) :
                 o \in { x \in sc_pkcs11_verify_update(data, <<Head(msg)>>) :
                         x.rv = OK } }

SignMessage ==
    /\ \E mech \in RoundTripMechs, k \in KeyBehaviours, msg \in Messages :
          LET n == FindIndex(mechanisms, mech, {"CKF_SIGN"})
          IN  /\ n # 0
              /\ \E i \in { x \in sc_pkcs11_signature_init(mechanisms[n], k) : x.rv = OK } :
                  \E data \in SignFeed(i.priv, msg) :
                  \E o \in sc_pkcs11_signature_final(data) :
                     call' = [CallOf("sign", "SIGN", o.rv) EXCEPT
                                 !.mech = mech, !.can_do = i.can_do,
                                 !.swhash = data.md.open, !.signed = msg,
                                 !.primIn = o.primIn,
                                 !.sig = IF o.rv = OK THEN RawSign(o.primIn)
                                         ELSE NoInput]
    /\ UNCHANGED <<ops, mechanisms, storage, registered, regcall, query>>

VerifyMessage ==
    /\ call.fn \in {"sign", "verify"} /\ call.sig # NoInput
    /\ \E k \in KeyBehaviours, msg \in Messages :
          LET n == FindIndex(mechanisms, call.mech, {"CKF_VERIFY"})
          IN  /\ n # 0
              /\ \E i \in { x \in sc_pkcs11_verify_init(mechanisms[n], k) : x.rv = OK } :
                  \E data \in VerifyFeed(i.priv, msg) :
                  \E rv \in sc_pkcs11_verify_final(data, call.sig) :
                     call' = [call EXCEPT !.fn = "verify", !.fam = "VERIFY",
                                          !.rv = rv, !.fed = msg]
    /\ UNCHANGED <<ops, mechanisms, storage, registered, regcall, query>>

RoundTripNext == SignMessage \/ VerifyMessage
RoundTripSpec == Init /\ [][RoundTripNext]_vars

(***************************************************************************)
(* Properties of the dispatcher (specification Spec)                       *)
(***************************************************************************)
\* The positions of the descriptors with this id whose flags include `flags`.
Matching(mechs, mech, flags) ==
    { n \in 1 .. Len(mechs) :
         mechs[n].mech = mech /\ flags \subseteq mechs[n].mech_info.flags }

FinalCall == call.fn \in {"final", "oneshot"} /\ call.found /\ call.rv # CRASH

\* C1: a final or one-shot call that found its handle and is neither a
\* successful null-buffer size query nor a CKR_BUFFER_TOO_SMALL result leaves
\* no handle of its family installed, whether the output buffer was null or not.
C1_FinalTerminates ==
    (FinalCall /\ call.rv # BTS /\ ~(call.rv = OK /\ call.outnull))
        => ops[call.fam] = NoOp

\* What the signing primitive is handed by one final call after the updates
\* `fed`: the data itself, or its digest when the nested digest is used.
SingleCallInput(fed, swhash) == IF swhash THEN <<DigestOf(fed)>> ELSE fed

\* C2: when a sign-final call was a null-buffer size query or returned
\* CKR_BUFFER_TOO_SMALL and the next sign-final call succeeds with a buffer, the
\* signing primitive is handed what a single call after the same updates is
\* handed: the update data, or one digest of it, exactly once.
C2_RetrySameInput ==
    [][ ( /\ call.fn = "final" /\ call.fam = "SIGN" /\ call.found
          /\ (call.rv = BTS \/ (call.outnull /\ call.rv = OK))
          /\ call'.fn = "final" /\ call'.fam = "SIGN" /\ call'.found
          /\ ~call'.outnull /\ call'.rv = OK )
        => call'.primIn = SingleCallInput(call'.fed, call'.swhash) ]_vars

\* C3: an init call whose init hook or whose key's init_params returned an
\* error after the handle was installed returns an error and leaves no handle
\* of its family installed.
C3_InitFailureUninstalls ==
    (call.fn = "init" /\ call.started /\ call.hookerr)
        => (call.rv # OK /\ ops[call.fam] = NoOp)

\* C4: a sign, verify, encrypt or decrypt init call that passed the descriptor
\* checks with a parameter longer than mechanism_params returns
\* CKR_ARGUMENTS_BAD, installs no handle and copies no more than the capacity.
C4_OversizeParamRefused ==
    ( /\ call.fn = "init" /\ call.fam # "DIGEST" /\ call.plen > ParamCap
      /\ call.rv \notin {"CKR_MECHANISM_INVALID", "CKR_KEY_TYPE_INCONSISTENT"} )
        => ( /\ call.rv = "CKR_ARGUMENTS_BAD"
             /\ ~call.started
             /\ call.copied <= ParamCap )

UpdateFailed(c) ==
    c.fn = "update" /\ c.found /\ c.rv \notin {OK, BTS, CRASH}

\* C5: after an update call that found its handle returned an error other than
\* CKR_BUFFER_TOO_SMALL no handle of that family is installed, and an update or
\* final call on that family that follows immediately returns
\* CKR_OPERATION_NOT_INITIALIZED without calling a hook.
C5_UpdateErrorTerminates ==
    [][ UpdateFailed(call)
        => ( /\ ops[call.fam] = NoOp
             /\ (call'.fam = call.fam /\ call'.fn \in {"update", "final"})
                   => (call'.rv = NOT_INIT /\ call'.hooks = {}) ) ]_vars

C5_Witness == UpdateFailed(call) /\ call.hooks = {"update"} /\ ops[call.fam] = NoOp

TooSmallWithBuffer(c) ==
    /\ c.fn \in {"final", "oneshot"} /\ c.fam # "VERIFY" /\ c.found
    /\ ~c.outnull /\ c.rv = BTS

\* C6: a sign-final, digest-final, encrypt or decrypt final or one-shot call
\* with a non-null buffer that returns CKR_BUFFER_TOO_SMALL leaves the handle
\* installed, and the call on that family that follows immediately does not
\* return CKR_OPERATION_NOT_INITIALIZED.
C6_TooSmallKeepsHandle ==
    [][ TooSmallWithBuffer(call)
        => ( /\ ops[call.fam] # NoOp
             /\ (call'.fam = call.fam) => (call'.rv # NOT_INIT) ) ]_vars

C6_Witness == TooSmallWithBuffer(call) /\ ops[call.fam] # NoOp

\* C7: a final or one-shot call with a null output buffer that returns CKR_OK
\* leaves the handle of its family installed, whether the hook answered CKR_OK
\* or CKR_BUFFER_TOO_SMALL to the length query.
C7_SizeQueryKeepsHandle ==
    ( /\ call.fn \in {"final", "oneshot"} /\ call.fam # "VERIFY" /\ call.found
      /\ call.outnull /\ call.rv = OK )
        => ops[call.fam] # NoOp

\* The capability flag of each family that names a mechanism and a key.
FamilyFlag ==
    [ SIGN |-> "CKF_SIGN", VERIFY |-> "CKF_VERIFY", ENCRYPT |-> "CKF_ENCRYPT",
      DECRYPT |-> "CKF_DECRYPT", DERIVE |-> "CKF_DERIVE", WRAP |-> "CKF_WRAP",
      UNWRAP |-> "CKF_UNWRAP" ]

\* C16: a sign, verify, encrypt or decrypt init call, or a derive, wrap or
\* unwrap call, that names a mechanism with no descriptor carrying the family's
\* flag returns CKR_MECHANISM_INVALID; one whose descriptor does not accept the
\* key type returns CKR_KEY_TYPE_INCONSISTENT; in both cases the installed
\* handles are what they were.
C16_CapabilityMismatch ==
    [][ (call'.fn \in {"init", "direct"} /\ call'.fam \in DOMAIN FamilyFlag) =>
          LET hits == Matching(mechanisms, call'.mech, {FamilyFlag[call'.fam]})
          IN  /\ hits = {} => (call'.rv = "CKR_MECHANISM_INVALID" /\ ops' = ops)
              /\ (hits # {} /\ validate_key_type(mechanisms[Min(hits)], call'.key_type) # OK)
                    => (call'.rv = "CKR_KEY_TYPE_INCONSISTENT" /\ ops' = ops) ]_vars

\* C17: a wrap call resolves its descriptor with the Wrap flag: on a mechanism
\* whose descriptor carries Wrap (with or without Unwrap) and accepts the key
\* type the call is dispatched to the wrap hook, and on a mechanism with no
\* descriptor carrying Wrap it returns CKR_MECHANISM_INVALID with nothing
\* started.
C17_WrapResolvesWithWrapFlag ==
    [][ (call'.fn = "direct" /\ call'.fam = "WRAP") =>
          LET hits == Matching(mechanisms, call'.mech, {"CKF_WRAP"})
          IN  /\ hits = {} =>
                    (call'.rv = "CKR_MECHANISM_INVALID" /\ ~call'.started)
              /\ (hits # {} /\ validate_key_type(mechanisms[Min(hits)], call'.key_type) = OK)
                    => \/ call'.rv = "CKR_HOST_MEMORY" /\ ~call'.started
                       \/ call'.started /\ call'.hooks = {"wrap"} ]_vars

\* The hook a family's update, final or size call dispatches to.
FamilyHook ==
    [ DIGEST  |-> [update |-> "md_update", final |-> "md_final"],
      SIGN    |-> [update |-> "sign_update", final |-> "sign_final", size |-> "sign_size"],
      VERIFY  |-> [update |-> "verif_update", final |-> "verif_final"],
      ENCRYPT |-> [update |-> "encrypt_update", final |-> "encrypt_final"],
      DECRYPT |-> [update |-> "decrypt_update", final |-> "decrypt_final"] ]

UnsetHookCall(c, o) ==
    /\ c.fam \in DOMAIN FamilyHook
    /\ c.fn \in DOMAIN FamilyHook[c.fam]
    /\ o[c.fam] # NoOp
    /\ ~HookSet(o[c.fam].type, FamilyHook[c.fam][c.fn])

\* C18: an update, final or size call of any family on an installed handle
\* whose descriptor leaves that hook unset returns CKR_KEY_TYPE_INCONSISTENT
\* and invokes no hook.
C18_UnsetHookRefused ==
    [][ UnsetHookCall(call', ops) =>
          (call'.rv = "CKR_KEY_TYPE_INCONSISTENT" /\ call'.hooks = {}) ]_vars

\* The descriptor a sign-init call resolved, and whether it is a composed
\* (hash-then-sign) one.
SignDescriptor(c) == mechanisms[FindIndex(mechanisms, c.mech, {"CKF_SIGN"})]

ComposedSignInit(c) ==
    /\ c.fn = "init" /\ c.fam = "SIGN" /\ c.started /\ c.can_do # "none"
    /\ SignDescriptor(c).mech_data # NoInfo

\* C19: in sign-init of a composed descriptor, when the key's can_do answers
\* CKR_OK the handle gets no nested digest; when it answers
\* CKR_FUNCTION_NOT_SUPPORTED or the key has no can_do hook, a sign-init that
\* succeeds leaves a fresh nested digest bound to the composition's hash
\* descriptor (and one that fails leaves no sign handle); when it answers any
\* other error, sign-init returns that error and no sign handle, hence no
\* nested digest, remains.
C19_CanDoDecidesNestedDigest ==
    [][ ComposedSignInit(call') =>
          LET op == ops'["SIGN"]
              info == SignDescriptor(call').mech_data
          IN  CASE call'.can_do = OK ->
                     op = NoOp \/ ~op.priv.md.open
                [] call'.can_do \in {"CKR_FUNCTION_NOT_SUPPORTED", "absent"} ->
                     IF call'.rv = OK
                     THEN /\ op # NoOp /\ op.priv.md.open
                          /\ op.priv.md.type = info.hash_type
                          /\ mechanisms[op.priv.md.type].mech = info.hash_mech
                          /\ op.priv.md.fed = << >> /\ op.priv.md.finals = 0
                          /\ op.priv.buffer = << >>
                     ELSE op = NoOp
                [] OTHER ->
                     call'.rv = call'.can_do /\ op = NoOp ]_vars

C19_Witness ==
    /\ ComposedSignInit(call) /\ call.rv = OK
    /\ call.can_do = "CKR_FUNCTION_NOT_SUPPORTED"
    /\ ops["SIGN"] # NoOp /\ ops["SIGN"].priv.md.open

\* A sign or verify operation instance that init completed.
Running(o, fam) == o[fam] # NoOp /\ o[fam].priv.set

\* C20: as long as a sign or verify operation instance lives (across update
\* calls and final calls that leave the handle installed), either it has a
\* nested digest and its raw buffer is empty, or it has no nested digest; and
\* which of the two holds does not change after init.
C20_OneAccumulator ==
    [][ \A fam \in {"SIGN", "VERIFY"} :
          Running(ops', fam) =>
            /\ ops'[fam].priv.md.open => ops'[fam].priv.buffer = << >>
            /\ (Running(ops, fam) /\ ~(call'.fn = "init" /\ call'.fam = fam))
                  => ops'[fam].priv.md.open = ops[fam].priv.md.open ]_vars

\* C21: a sign-final call that reaches the key's sign primitive hands it the
\* digest of all update data in call order (nested digest in use) or that data
\* itself (raw path), with nothing added, dropped, reordered or repeated.
C21_PrimitiveInputExact ==
    (call.fn = "final" /\ call.fam = "SIGN" /\ call.primIn # NoInput)
        => call.primIn = SingleCallInput(call.fed, call.swhash)

\* A sign-final call in which md_final of the nested digest answered
\* CKR_BUFFER_TOO_SMALL.
DigestOverflow(c) ==
    c.fn = "final" /\ c.fam = "SIGN" /\ c.swhash /\ c.md_rv = BTS

\* C22: when finalising the nested digest reports CKR_BUFFER_TOO_SMALL,
\* sign-final returns CKR_FUNCTION_FAILED (never CKR_BUFFER_TOO_SMALL), the
\* key's sign primitive is not reached, and with a non-null signature buffer
\* the sign handle is uninstalled.
C22_DigestOverflowIsFatal ==
    DigestOverflow(call) =>
        /\ call.rv = "CKR_FUNCTION_FAILED"
        /\ call.primIn = NoInput
        /\ ~call.outnull => ops["SIGN"] = NoOp

C22_Witness ==
    DigestOverflow(call) /\ ~call.outnull /\ ops["SIGN"] = NoOp

\* A sign-init or verify-init call in which creating the nested digest
\* operation or its md_init failed.
NestedDigestFailed(c) ==
    /\ c.fn = "init" /\ c.fam \in {"SIGN", "VERIFY"} /\ c.started
    /\ c.md_rv \notin {"none", OK}

\* C23: when creating or initialising the nested digest fails in sign-init or
\* verify-init of a composed descriptor, the init call returns that error, the
\* nested operation and the operation data are released, and no handle of the
\* family remains installed.
C23_NestedFailureUnwinds ==
    NestedDigestFailed(call) =>
        /\ call.rv = call.md_rv
        /\ call.live = {}
        /\ ops[call.fam] = NoOp

C23_Witness ==
    /\ NestedDigestFailed(call) /\ call.fam = "VERIFY" /\ call.md_rv = ERR
    /\ call.live = {} /\ ops["VERIFY"] = NoOp

\* The least number of bytes that hold `bits` bits.
Ceil8(bits) == CHOOSE n \in 0 .. bits : 8 * n >= bits /\ (n = 0 \/ 8 * (n - 1) < bits)

\* A size query whose reads of the key's attributes succeeded.
SizeAnswered(c) == c.fn = "size" /\ c.hooks = {"size"} /\ c.rv # ERR

\* C26: the signature size query returns ceil(bits/8) for an RSA key, twice
\* that for EC, EC-Edwards, EC-Montgomery and GOST R 34.10 keys (256 for a
\* 2048-bit modulus, 64 for a 256-bit curve), and CKR_MECHANISM_INVALID for
\* every other key type.
C26_SignatureSize ==
    SizeAnswered(call) =>
        /\ call.key_type = CKK_RSA =>
              (call.rv = OK /\ call.len = Ceil8(call.bits))
        /\ call.key_type \in {CKK_EC, CKK_EC_EDWARDS, CKK_EC_MONTGOMERY, CKK_GOSTR3410} =>
              (call.rv = OK /\ call.len = 2 * Ceil8(call.bits))
        /\ call.key_type \notin {CKK_RSA, CKK_EC, CKK_EC_EDWARDS, CKK_EC_MONTGOMERY,
                                 CKK_GOSTR3410} =>
              call.rv = "CKR_MECHANISM_INVALID"
        /\ (call.key_type = CKK_RSA /\ call.bits = 2048) => call.len = 256
        /\ (call.key_type = CKK_EC /\ call.bits = 256) => call.len = 64

C26_Witness ==
    /\ SizeAnswered(call) /\ call.key_type = CKK_EC_EDWARDS /\ call.bits = 255
    /\ call.len = 64

\* C29: a derive that started its operation asks the key for the length first;
\* the actual call is made only after a successful query and is given the
\* queried length; the value attribute is set only after a successful actual
\* call that reported a length other than 0; and when the call returns no
\* Derive handle is installed.
C29_DeriveTwoPhase ==
    (call.fam = "DERIVE" /\ call.started /\ call.rv # CRASH) =>
        /\ call.derive.query # "none"
        /\ call.derive.actual # "none" =>
              call.derive.query = OK /\ call.derive.buflen = call.derive.qlen
        /\ call.derive.value => call.derive.actual = OK /\ call.derive.outlen > 0
        /\ ops["DERIVE"] = NoOp

C29_Witness ==
    /\ call.fam = "DERIVE" /\ call.started /\ call.rv = OK
    /\ call.derive.qlen = MaxDerived /\ call.derive.buflen = MaxDerived
    /\ call.derive.value /\ ops["DERIVE"] = NoOp

UpdateTooSmall(c) ==
    c.fn = "update" /\ c.found /\ c.hooks = {"update"} /\ c.rv = BTS

\* C30: in every family with an update call, an update call whose hook
\* returned CKR_BUFFER_TOO_SMALL leaves the family's handle installed.
C30_TooSmallUpdateKeepsHandle ==
    UpdateTooSmall(call) => ops[call.fam] # NoOp

\* C31: whenever a call releases an accumulation buffer that holds data, be it
\* the buffer an append superseded or the buffer of an operation that ended (in
\* final, in an error, or before its terminal call), every byte of it was
\* zeroed first; and a failed init leaves nothing allocated behind.
C31_BuffersZeroed ==
    /\ call.freed # "unzeroed"
    /\ (call.fn = "init" /\ call.fam \in {"SIGN", "VERIFY"} /\ call.hookerr)
          => call.live = {}

\* A sign or verify operation that had accumulated data ended, and its buffer
\* was zeroed.
C31_Witness ==
    /\ call.fam \in {"SIGN", "VERIFY"} /\ call.fn \in {"update", "final"}
    /\ call.found /\ ops[call.fam] = NoOp /\ call.freed = "zeroed"

\* An append superseded a buffer that held data.
C31_WitnessAppend ==
    /\ call.fam = "SIGN" /\ call.fn = "update" /\ call.rv = OK
    /\ ops["SIGN"] # NoOp /\ call.freed = "zeroed"

SizeQuery(c) == c.fn = "size" /\ c.fam = "SIGN" /\ c.found

\* C34: a sign-size query on an installed sign handle that returns CKR_OK
\* leaves the handle installed with the same descriptor, accumulated data and
\* nested digest; one that fails uninstalls the handle, and a sign-final that
\* follows it returns CKR_OPERATION_NOT_INITIALIZED without calling a hook.
C34_SizeQueryKeepsOrEnds ==
    [][ /\ SizeQuery(call') =>
              IF call'.rv = OK
              THEN /\ ops'["SIGN"] # NoOp
                   /\ ops'["SIGN"].type = ops["SIGN"].type
                   /\ ops'["SIGN"].priv = ops["SIGN"].priv
                   /\ ops'["SIGN"].fed = ops["SIGN"].fed
              ELSE ops'["SIGN"] = NoOp
        /\ (SizeQuery(call) /\ call.rv # OK /\ call'.fam = "SIGN" /\ call'.fn = "final")
              => (call'.rv = NOT_INIT /\ call'.hooks = {}) ]_vars

\* A size query failed on a handle whose size hook is set, and the handle is
\* gone.
C34_Witness ==
    SizeQuery(call) /\ call.hooks = {"size"} /\ call.rv # OK /\ ops["SIGN"] = NoOp

\* A size query succeeded on a handle with a nested digest that had been fed.
C34_WitnessKept ==
    /\ SizeQuery(call) /\ call.rv = OK /\ ops["SIGN"] # NoOp
    /\ ops["SIGN"].priv.md.open /\ ops["SIGN"].fed # << >>

(***************************************************************************)
(* Properties of the registry (specification RegSpec)                      *)
(***************************************************************************)
\* C8: the registry never holds two descriptors with the same mechanism id.
C8_UniqueIds ==
    \A i, j \in 1 .. Len(mechanisms) :
        i # j => mechanisms[i].mech # mechanisms[j].mech

\* C9: in a registry whose storage is valid, the descriptor that find returns
\* for an id accepts a key type if and only if a successful registration for
\* that id carried it.
C9_AcceptsRegisteredKeyTypes ==
    storage # "freed" =>
        \A id \in MechIds, kt \in KeyTypes :
            LET n == FindIndex(mechanisms, id, {})
            IN  (n # 0 /\ validate_key_type(mechanisms[n], kt) = OK)
                    <=> (<<id, KeyTypeAsInt(kt)>> \in registered)

\* C10: a register call that fails while adding a new id (the array cannot
\* grow, or the descriptor cannot be cloned) leaves the descriptors, their order
\* and their number as they were, in storage that is not freed.
C10_FailedRegisterRollsBack ==
    [][ regcall'.path \in {"realloc_failed", "copy_failed"}
        => (mechanisms' = mechanisms /\ storage' # "freed") ]_vars

\* The descriptor as the merge loop reads it: every slot holds a key type; some
\* slot holds this one.
SlotsFull(mt) == \A i \in 1 .. MAX_KEY_TYPES : mt.key_types[i] >= 0
HoldsKeyType(mt, kt) == \E i \in 1 .. MAX_KEY_TYPES : mt.key_types[i] = kt

\* C11: a register call for an id that is registered, with a key type its
\* descriptor does not hold, when all MAX_KEY_TYPES slots of the descriptor are
\* occupied, fails with CKR_BUFFER_TOO_SMALL and leaves every descriptor and
\* the number of descriptors as they were.
C11_FullDescriptorRejects ==
    [][ LET n == FindIndex(mechanisms, regcall'.mt.mech, {})
        IN  ( /\ regcall'.path # "dangling"
              /\ n # 0
              /\ SlotsFull(mechanisms[n])
              /\ ~HoldsKeyType(mechanisms[n], regcall'.mt.key_types[1]) )
            => (regcall'.rv = "CKR_BUFFER_TOO_SMALL" /\ mechanisms' = mechanisms) ]_vars

\* The slots of a descriptor that hold a key type, as the code reads them.
Occupied(mt) == { i \in 1 .. MAX_KEY_TYPES : mt.key_types[i] >= 0 }

\* The occupied slots are a prefix, the slot after them (if any) holds the
\* sentinel, and no key type occurs twice.
KeyTypesWellFormed(mt) ==
    /\ \A i \in Occupied(mt) : \A j \in 1 .. i : j \in Occupied(mt)
    /\ \A i, j \in Occupied(mt) : i # j => mt.key_types[i] # mt.key_types[j]

\* C12: in a registry whose storage is valid every descriptor's key types are
\* well formed (at most MAX_KEY_TYPES, a prefix before the sentinel, no key
\* type twice), and no register call removes or overwrites a slot that holds a
\* key type a successful registration for that id put there.
C12_KeyTypeSlotsKept ==
    [][ storage' # "freed" =>
          /\ \A n \in 1 .. Len(mechanisms') : KeyTypesWellFormed(mechanisms'[n])
          /\ \A n \in 1 .. Len(mechanisms) : \A i \in 1 .. MAX_KEY_TYPES :
                <<mechanisms[n].mech, mechanisms[n].key_types[i]>> \in registered
                    => /\ n <= Len(mechanisms')
                       /\ mechanisms'[n].key_types[i] = mechanisms[n].key_types[i] ]_vars

\* C13: on a registry whose storage is valid, find(id, flags) returns the
\* earliest registered descriptor with that id whose flags include `flags`,
\* returns none exactly when there is no such descriptor, and leaves the
\* registry as it was; register calls keep the descriptors in the order of
\* their registration.
C13_FindFirstMatch ==
    [][ storage # "freed" =>
          /\ query'.fn = "find" =>
                LET hits == Matching(mechanisms, query'.mech, query'.flags)
                IN  /\ query'.found = 0 <=> hits = {}
                    /\ hits # {} => /\ query'.found \in hits
                                    /\ \A m \in hits : query'.found <= m
                    /\ mechanisms' = mechanisms /\ storage' = storage
          /\ \A n \in 1 .. Len(mechanisms) :
                n <= Len(mechanisms') /\ mechanisms'[n].mech = mechanisms[n].mech ]_vars

C13_Witness ==
    /\ query.fn = "find" /\ storage = "valid"
    /\ query.found > 1 /\ mechanisms[1].mech = query.mech

\* C14: on a registry whose storage is valid, list writes the number of
\* registered descriptors to the count; with a buffer of smaller capacity it
\* writes exactly the first `capacity` ids and returns CKR_BUFFER_TOO_SMALL;
\* with a null buffer or a buffer of sufficient capacity it returns CKR_OK (and
\* a sufficient buffer receives every id, in order); the registry is unchanged.
C14_ListReportsTotal ==
    [][ (storage # "freed" /\ query'.fn = "list") =>
          LET ids == [n \in 1 .. Len(mechanisms) |-> mechanisms[n].mech]
              cap == query'.capacity
          IN  /\ query'.count = Len(mechanisms)
              /\ mechanisms' = mechanisms
              /\ IF query'.null
                 THEN query'.rv = "CKR_OK" /\ query'.written = << >>
                 ELSE IF cap < Len(mechanisms)
                 THEN /\ query'.rv = "CKR_BUFFER_TOO_SMALL"
                      /\ query'.written = SubSeq(ids, 1, cap)
                 ELSE query'.rv = "CKR_OK" /\ query'.written = ids ]_vars

C14_Witness ==
    /\ query.fn = "list" /\ storage = "valid" /\ ~query.null
    /\ query.capacity > 0 /\ query.capacity < query.count
    /\ query.rv = "CKR_BUFFER_TOO_SMALL" /\ Len(query.written) = query.capacity

\* C15: a register call that finds its descriptor and succeeds (the key type is
\* present, or goes into a free slot) leaves that descriptor with the smaller
\* of the two minimum key sizes, the larger of the two maximum key sizes and the
\* union of the flags, and leaves the number of descriptors and every other
\* descriptor as they were.
C15_MergeWidensInfo ==
    [][ regcall'.path \in {"same", "slot"} =>
          LET new == regcall'.mt.mech_info
              n   == Min(Matching(mechanisms, regcall'.mt.mech, new.flags))
              old == mechanisms[n].mech_info
              now == mechanisms'[n].mech_info
          IN  /\ regcall'.rv = "CKR_OK"
              /\ now.ulMinKeySize = Min({old.ulMinKeySize, new.ulMinKeySize})
              /\ now.ulMaxKeySize = -Min({-old.ulMaxKeySize, -new.ulMaxKeySize})
              /\ now.flags = old.flags \cup new.flags
              /\ Len(mechanisms') = Len(mechanisms)
              /\ \A m \in 1 .. Len(mechanisms) : m # n => mechanisms'[m] = mechanisms[m] ]_vars

C15_Witness ==
    /\ regcall.path \in {"same", "slot"}
    /\ \E n \in 1 .. Len(mechanisms) :
          /\ mechanisms[n].mech = regcall.mt.mech
          /\ mechanisms[n].mech_info.ulMinKeySize < regcall.mt.mech_info.ulMinKeySize
          /\ mechanisms[n].mech_info.ulMaxKeySize >= regcall.mt.mech_info.ulMaxKeySize

(***************************************************************************)
(* Properties of the hash-then-sign registration (specification HashSpec)  *)
(***************************************************************************)
\* A sign-and-hash registration that returned CKR_OK, and the descriptor the
\* registry then holds for the composite id.
Derived(q) == q.fn = "sign_and_hash" /\ q.rv = "CKR_OK"
Composite(mechs) == mechs[FindIndex(mechs, CKM.sha_rsa, {})]

\* C24: after a hash-then-sign mechanism was registered from a raw signer, the
\* derived descriptor accepts exactly the key types the raw signer accepts,
\* however many of its slots the raw signer uses.
C24_DerivedAcceptsSameKeyTypes ==
    [][ Derived(query') =>
          \A kt \in KeyTypes :
             validate_key_type(Composite(mechanisms'), kt)
               = validate_key_type(mechanisms[query'.sign_type], kt) ]_vars

SignAndVerifyFlags == {"CKF_SIGN", "CKF_SIGN_RECOVER", "CKF_VERIFY", "CKF_VERIFY_RECOVER"}

\* C25: registering a hash-then-sign mechanism whose hash id has no descriptor
\* with CKF_DIGEST returns CKR_MECHANISM_INVALID and leaves the registry as it
\* was; otherwise, when it succeeds, the descriptor stored for the composite
\* id has no flag outside the sign and verify flags of the raw signer, and its
\* composition info names the hash id and refers to a digest descriptor of
\* the registry with that id.
C25_DerivedFlagsAndHash ==
    [][ (query'.fn = "sign_and_hash" /\ query'.sign_type # 0) =>
          IF Matching(mechanisms, query'.mech, {"CKF_DIGEST"}) = {}
          THEN query'.rv = "CKR_MECHANISM_INVALID" /\ mechanisms' = mechanisms
          ELSE query'.rv = "CKR_OK" =>
                 LET d == Composite(mechanisms')
                 IN  /\ d.mech_info.flags \subseteq
                           SignAndVerifyFlags \cap mechanisms[query'.sign_type].mech_info.flags
                     /\ d.mech_data.hash_mech = query'.mech
                     /\ d.mech_data.hash_type
                           \in Matching(mechanisms', query'.mech, {"CKF_DIGEST"}) ]_vars

C25_Witness ==
    /\ Derived(query)
    /\ "CKF_DECRYPT" \in mechanisms[query.sign_type].mech_info.flags
    /\ Composite(mechanisms).mech_info.flags = {"CKF_SIGN"}
    /\ Composite(mechanisms).mech_data.hash_type = query.found


(***************************************************************************)
(* Properties of the sign-then-verify round trip (specification            *)
(* RoundTripSpec)                                                          *)
(***************************************************************************)
\* The two messages have one length and differ in exactly one byte.
OneByteOff(a, b) ==
    /\ Len(a) = Len(b)
    /\ Cardinality({ i \in 1 .. Len(a) : a[i] # b[i] }) = 1

\* The calls of verify-final that fail outside the verification itself: the
\* read of a key attribute or the allocation of its value.
AttributeFailures == {ERR, "CKR_HOST_MEMORY"}

\* C27: on the software-hash path of a composed mechanism, verifying the
\* message that was signed, with the signature sign-final produced, returns
\* Ok once the key's attributes are read (it never reports an invalid
\* signature); verifying a message that differs in one byte returns an error.
C27_RoundTrip ==
    (call.fn = "verify" /\ call.swhash) =>
        /\ call.fed = call.signed => call.rv \in {OK} \cup AttributeFailures
        /\ OneByteOff(call.fed, call.signed) => call.rv # OK

C27_Witness ==
    /\ call.fn = "verify" /\ call.swhash /\ call.mech = CKM.sha_rsa
    /\ Len(call.signed) = MaxFed
    /\ call.fed = call.signed /\ call.rv = OK

C27_WitnessFlipped ==
    /\ call.fn = "verify" /\ call.swhash
    /\ OneByteOff(call.fed, call.signed) /\ call.rv = "CKR_SIGNATURE_INVALID"


(***************************************************************************)
(* Properties of a session with operations of several families             *)
(* (specification BesideSpec)                                              *)
(***************************************************************************)
\* C28: a call on one family, failing or not, leaves the handle of every other
\* family as it was: it installs, replaces and uninstalls none of them.  In
\* particular the nested digest of a composed sign or verify never becomes the
\* session's Digest handle, and a Digest handle in flight stays as it is.
C28_FamiliesIndependent ==
    [][ \A f \in Families : f # call'.fam => ops'[f] = ops[f] ]_vars

\* A composed sign on the software-hash path was finished, or failed in an
\* update, while a Digest operation was in flight, and the Digest handle is
\* still installed.
C28_Witness ==
    /\ call.fam = "SIGN" /\ ops["DIGEST"] # NoOp /\ ops["SIGN"] = NoOp
    /\ \/ call.fn = "final" /\ call.swhash /\ call.rv = OK /\ ~call.outnull
       \/ call.fn = "update" /\ call.rv = ERR


(***************************************************************************)
(* Properties of the accumulation buffer (specification AppendSpec)        *)
(***************************************************************************)
\* C32: after any sequence of successful appends the buffer holds the
\* concatenation of the appended data, and its recorded length is the sum of
\* the appended lengths.
C32_BufferIsConcatenation ==
    call.rv # CRASH => ops["SIGN"].priv.buffer = ops["SIGN"].fed


(***************************************************************************)
(* Properties of the descriptors of sc_pkcs11_new_fw_mechanism             *)
(* (specification FwSpec)                                                  *)
(***************************************************************************)
\* The flag each function looks the descriptor up under, and the hook it calls
\* once the operation is started.
LookupFlag ==
    [ DIGEST |-> "CKF_DIGEST", SIGN |-> "CKF_SIGN", VERIFY |-> "CKF_VERIFY",
      ENCRYPT |-> "CKF_ENCRYPT", DECRYPT |-> "CKF_DECRYPT", WRAP |-> wrap_flag,
      UNWRAP |-> unwrap_flag, DERIVE |-> deri_flag ]
EntryHook ==
    [ DIGEST |-> "md_init", SIGN |-> "sign_init", VERIFY |-> "verif_init",
      ENCRYPT |-> "encrypt_init", DECRYPT |-> "decrypt_init", WRAP |-> "wrap",
      UNWRAP |-> "unwrap", DERIVE |-> "derive" ]

\* An init, derive, wrap or unwrap call that resolved a descriptor and started
\* its operation: the hook it calls next is unset.
EntersUnsetHook(c) ==
    /\ c.fn \in {"init", "direct"} /\ c.started
    /\ ~HookSet(FindIndex(mechanisms, c.mech, {LookupFlag[c.fam]}), EntryHook[c.fam])

\* C33: on a token whose descriptors were built by sc_pkcs11_new_fw_mechanism,
\* no call of the dispatcher invokes a hook that is unset: the hook an init,
\* derive, wrap or unwrap call reaches after resolving the descriptor is set,
\* and no update, final or size call runs into an unset hook.
C33_NoUnsetHookInvoked ==
    [][ /\ ~EntersUnsetHook(call')
        /\ UnsetHookCall(call', ops) => call'.rv # CRASH ]_vars

=============================================================================
